---- MODULE Spec2Model ----
(***************************************************************************)
(* A model of the simplified Pokemon TCG engine (package poketcg): the     *)
(* card values, Deck, Player and the PokemonGame controller.  Every Python *)
(* method is an operator from the object's state (a record) to the record  *)
(* [self, ret, raised]: the state the call leaves, the value it returns    *)
(* and the exception that propagates (NoError when it returns normally).   *)
(***************************************************************************)
EXTENDS Integers, Sequences, FiniteSets, TLC

VARIABLES
    game,       \* the PokemonGame controller under test
    built,      \* the arguments game was constructed with: the two decks and the seed
    clones,     \* the controllers game.clone() returned (at most one is kept)
    shared,     \* the list objects the clone and its original both hold
    client,     \* a PokemonCardClient (card_data.py)
    the_web,    \* what a download does, for each card id
    a_player,   \* a Player a caller uses on its own, outside any controller
    call,       \* the last call made: its name, argument, state before, return, exception
    ready,      \* setup() has succeeded and only step() calls were made since
    setups,     \* number of setup() calls made on game
    pc,         \* position of the caller inside play(): "idle" (not in play) or "loop"
    max_turns,  \* play's keyword argument
    winner,     \* play's local variable winner
    steps,      \* number of step() calls the running play() has made
    runs,       \* the play() calls that have ended: arguments, exception, GameResult
    returned    \* what the step() calls returned since clone(): on game, and on the clone

vars == <<game, client, the_web, a_player, built, clones, shared, call, ready, setups, pc, max_turns, winner, steps, runs,
         returned>>

----------------------------------------------------------------------------
(* Bounds of the model *)

\* seeds 0 .. NumSeeds-1 are passed to PokemonGame(..., seed=)
NumSeeds == 3
\* decks of the API specification hold 13 .. 13+MaxExtra cards
MaxExtra == 2
\* direct step() calls are made while turn_count < MaxSteps
MaxSteps == 4
\* setup() is called at most MaxSetups times on one controller
MaxSetups == 2
\* play is called with max_turns in 0 .. MaxTurns (and with the test's 40)
MaxTurns == 3

----------------------------------------------------------------------------
(* Python values *)

\* no exception: the call returned
NoError == "NoError"
\* the exceptions the package raises
ErrNegative == "ValueError: n must be non-negative"
ErrDeck == "RuntimeError: Cannot draw more cards than remaining in deck"
ErrNoActive == "RuntimeError: No active pokemon to damage"
ErrNoStart(name) == "RuntimeError: Player " \o name \o " has no Pokemon to start the game"

\* Optional[str] / Optional[Turn]: the value None
NoneStr == "None"
\* Optional[int] external_id: None
NoId == -1

PLAYER_ONE == "PLAYER_ONE"
PLAYER_TWO == "PLAYER_TWO"
Turn == <<PLAYER_ONE, PLAYER_TWO>>
Turns == {PLAYER_ONE, PLAYER_TWO}

opposite(turn) == IF turn = PLAYER_ONE THEN PLAYER_TWO ELSE PLAYER_ONE

----------------------------------------------------------------------------
(* cards.py *)

Attack(name, damage) == [name |-> name, damage |-> damage]

PokemonCard(name, hp, attacks) ==
    [type |-> "PokemonCard", name |-> name, hp |-> hp, attacks |-> attacks,
     external_id |-> NoId]

EnergyCard(name) ==
    [type |-> "EnergyCard", name |-> name, hp |-> 0, attacks |-> <<>>,
     external_id |-> NoId]

\* active_pokemon = None
None == [type |-> "NoneType", name |-> NoneStr, hp |-> 0, attacks |-> <<>>,
         external_id |-> NoId]

isPokemonCard(card) == card.type = "PokemonCard"

----------------------------------------------------------------------------
(* deck.py *)

Deck(cards) == [cards |-> cards]

\* Deck.from_iterable: a deck of the cards in their order
from_iterable(cards) == Deck(cards)

\* [card] * n
Repeat(card, n) == [i \in 1..n |-> card]

\* A faulty variant of Deck.draw: the cards are taken from the bottom,
\* self.cards[-n:], self.cards[:-n]
Deck_draw_from_bottom(self, n) ==
    IF n < 0 THEN [self |-> self, ret |-> <<>>, raised |-> ErrNegative]
    ELSE IF n = 0 THEN [self |-> self, ret |-> <<>>, raised |-> NoError]
    ELSE IF Len(self.cards) < n
        THEN [self |-> self, ret |-> <<>>, raised |-> ErrDeck]
    ELSE [self |-> [self EXCEPT !.cards = SubSeq(self.cards, 1, Len(self.cards) - n)],
          ret |-> SubSeq(self.cards, Len(self.cards) - n + 1, Len(self.cards)),
          raised |-> NoError]

\* A faulty variant of Deck.draw: asked for more cards than remain, it hands
\* out none but empties the deck before it raises.
Deck_draw_partial(self, n) ==
    IF n < 0 THEN [self |-> self, ret |-> <<>>, raised |-> ErrNegative]
    ELSE IF n = 0 THEN [self |-> self, ret |-> <<>>, raised |-> NoError]
    ELSE IF Len(self.cards) < n
        THEN [self |-> [self EXCEPT !.cards = <<>>], ret |-> <<>>, raised |-> ErrDeck]
    ELSE [self |-> [self EXCEPT !.cards = SubSeq(self.cards, n + 1, Len(self.cards))],
          ret |-> SubSeq(self.cards, 1, n),
          raised |-> NoError]

\* Deck.draw(n): the first n cards leave the deck
Deck_draw(self, n) ==
    IF n < 0 THEN [self |-> self, ret |-> <<>>, raised |-> ErrNegative]
    ELSE IF n = 0 THEN [self |-> self, ret |-> <<>>, raised |-> NoError]
    ELSE IF Len(self.cards) < n
        THEN [self |-> self, ret |-> <<>>, raised |-> ErrDeck]
    ELSE [self |-> [self EXCEPT !.cards = SubSeq(self.cards, n + 1, Len(self.cards))],
          ret |-> SubSeq(self.cards, 1, n),
          raised |-> NoError]

----------------------------------------------------------------------------
(* player.py *)

\* Player(name, deck) and, in clone, Player(name=..., deck=..., hand=..., ...)
Player(name, deck, hand, discard_pile, prizes, active_pokemon, active_hp) ==
    [name |-> name, deck |-> deck, hand |-> hand, discard_pile |-> discard_pile,
     prizes |-> prizes, active_pokemon |-> active_pokemon, active_hp |-> active_hp]

NewPlayer(name, deck) == Player(name, deck, <<>>, <<>>, <<>>, None, 0)

\* default argument of setup_prizes(count=6)
DefaultPrizeCount == 6

\* Player.draw(n)
Player_draw(self, n) ==
    LET d == Deck_draw(self.deck, n) IN
    IF d.raised # NoError
        THEN [self |-> self, ret |-> <<>>, raised |-> d.raised]
        ELSE [self |-> [self EXCEPT !.deck = d.self, !.hand = self.hand \o d.ret],
              ret |-> d.ret, raised |-> NoError]

\* A faulty variant of setup_prizes: self.prizes.extend(...), the cards join
\* the prize pile that was there.
Player_setup_prizes_extending(self, count) ==
    LET d == Deck_draw(self.deck, count) IN
    IF d.raised # NoError
        THEN [self |-> self, raised |-> d.raised]
        ELSE [self |-> [self EXCEPT !.deck = d.self, !.prizes = self.prizes \o d.ret],
              raised |-> NoError]

\* Player.setup_prizes(count)
Player_setup_prizes(self, count) ==
    LET d == Deck_draw(self.deck, count) IN
    IF d.raised # NoError
        THEN [self |-> self, raised |-> d.raised]
        ELSE [self |-> [self EXCEPT !.deck = d.self, !.prizes = d.ret],
              raised |-> NoError]

\* A faulty variant of take_prize: the card is read with prizes[0] instead of
\* prizes.pop(0), so it also stays in the prize pile.
Player_take_prize_keeping(self) ==
    IF self.prizes = <<>>
        THEN [self |-> self, ret |-> None]
        ELSE [self |-> [self EXCEPT !.hand = Append(self.hand, Head(self.prizes))],
              ret |-> Head(self.prizes)]

\* Player.take_prize(): ret is None when the prize pile is empty
Player_take_prize(self) ==
    IF self.prizes = <<>>
        THEN [self |-> self, ret |-> None]
        ELSE [self |-> [self EXCEPT !.prizes = Tail(self.prizes),
                                    !.hand = Append(self.hand, Head(self.prizes))],
              ret |-> Head(self.prizes)]

\* Player.has_pokemon_in_hand()
has_pokemon_in_hand(self) ==
    \E idx \in 1..Len(self.hand) : isPokemonCard(self.hand[idx])

\* del hand[idx]
DelAt(seq, idx) == SubSeq(seq, 1, idx - 1) \o SubSeq(seq, idx + 1, Len(seq))

\* A faulty variant of promote_from_hand: the hand is searched from its end,
\* so the last Pokemon card is promoted.
Player_promote_last_from_hand(self) ==
    IF has_pokemon_in_hand(self)
        THEN LET idx == CHOOSE i \in 1..Len(self.hand) :
                            /\ isPokemonCard(self.hand[i])
                            /\ \A j \in (i + 1)..Len(self.hand) : ~isPokemonCard(self.hand[j])
                 card == self.hand[idx]
             IN [self |-> [self EXCEPT !.active_pokemon = card,
                                       !.active_hp = card.hp,
                                       !.hand = DelAt(self.hand, idx)],
                 ret |-> TRUE]
        ELSE [self |-> self, ret |-> FALSE]

\* A faulty variant of promote_from_hand: self.active_hp = card.hp is left
\* out, the promoted card starts at the hit points the spot had.
Player_promote_keeping_hp(self) ==
    IF has_pokemon_in_hand(self)
        THEN LET idx == CHOOSE i \in 1..Len(self.hand) :
                            /\ isPokemonCard(self.hand[i])
                            /\ \A j \in 1..(i - 1) : ~isPokemonCard(self.hand[j])
                 card == self.hand[idx]
             IN [self |-> [self EXCEPT !.active_pokemon = card,
                                       !.hand = DelAt(self.hand, idx)],
                 ret |-> TRUE]
        ELSE [self |-> self, ret |-> FALSE]

\* Player.promote_from_hand(): the first Pokemon card of the hand becomes active
Player_promote_from_hand(self) ==
    IF has_pokemon_in_hand(self)
        THEN LET idx == CHOOSE i \in 1..Len(self.hand) :
                            /\ isPokemonCard(self.hand[i])
                            /\ \A j \in 1..(i - 1) : ~isPokemonCard(self.hand[j])
                 card == self.hand[idx]
             IN [self |-> [self EXCEPT !.active_pokemon = card,
                                       !.active_hp = card.hp,
                                       !.hand = DelAt(self.hand, idx)],
                 ret |-> TRUE]
        ELSE [self |-> self, ret |-> FALSE]

Max(a, b) == IF a >= b THEN a ELSE b

\* A faulty variant of damage_active: the hit points are not floored at 0.
Player_damage_active_unfloored(self, amount) ==
    IF self.active_pokemon = None
        THEN [self |-> self, ret |-> FALSE, raised |-> ErrNoActive]
        ELSE LET hp == self.active_hp - amount IN
             [self |-> [self EXCEPT !.active_hp = hp],
              ret |-> (hp = 0), raised |-> NoError]

\* A faulty variant of damage_active: the knock-out is reported only when the
\* damage exceeds the hit points, return self.active_hp - amount < 0 as it were.
Player_damage_active_strict(self, amount) ==
    IF self.active_pokemon = None
        THEN [self |-> self, ret |-> FALSE, raised |-> ErrNoActive]
        ELSE LET hp == Max(self.active_hp - amount, 0) IN
             [self |-> [self EXCEPT !.active_hp = hp],
              ret |-> (self.active_hp - amount < 0), raised |-> NoError]

\* Player.damage_active(amount)
Player_damage_active(self, amount) ==
    IF self.active_pokemon = None
        THEN [self |-> self, ret |-> FALSE, raised |-> ErrNoActive]
        ELSE LET hp == Max(self.active_hp - amount, 0) IN
             [self |-> [self EXCEPT !.active_hp = hp],
              ret |-> (hp = 0), raised |-> NoError]

\* A faulty variant of discard_active: the active card is taken off the board
\* without being appended to the discard pile.
Player_discard_active_dropping(self) ==
    IF self.active_pokemon = None
        THEN self
        ELSE [self EXCEPT !.active_pokemon = None,
                          !.active_hp = 0]

\* Player.discard_active()
Player_discard_active(self) ==
    IF self.active_pokemon = None
        THEN self
        ELSE [self EXCEPT !.discard_pile = Append(self.discard_pile, self.active_pokemon),
                          !.active_pokemon = None,
                          !.active_hp = 0]

----------------------------------------------------------------------------
(* card_data.py *)

\* the exceptions a lookup ends in
ErrURL == "URLError"
ErrNotFound == "ValueError: not found"
ErrNoName == "ValueError: Unable to extract card name from detail page"
ErrEndBeforeStart == "ValueError: end must be greater than or equal to start"
ErrTimeout == "TimeoutError"

\* except (URLError, ValueError)
SkippedErrors == {ErrURL, ErrNotFound, ErrNoName}

\* RemoteCard
RemoteCard(card_id, name, detail_url, image_url) ==
    [card_id |-> card_id, name |-> name, detail_url |-> detail_url,
     image_url |-> image_url]

\* PokemonCardClient(): nothing cached (the cache maps card ids to RemoteCards)
PokemonCardClient == [_cache |-> <<>>]

\* DETAIL_URL_TEMPLATE.format(card_id=card_id)
build_detail_url(card_id) ==
    "https://www.pokemon-card.com/card-search/details.php/card/" \o ToString(card_id)

\* _MetaTagParser: the meta tags of a page, "" for a tag the page has not
Meta(og_title, title, og_image) ==
    [og_title |-> og_title, title |-> title, og_image |-> og_image]

\* what _download does for a url: it raises, or returns a page
Raises(error) == [raised |-> error, meta |-> Meta("", "", "")]
Page(meta) == [raised |-> NoError, meta |-> meta]

\* PokemonCardClient.fetch(card_id); web[card_id] is what _download does
fetch(self, web, card_id) ==
    IF card_id \in DOMAIN self._cache
        THEN [self |-> self, ret |-> self._cache[card_id], raised |-> NoError]
    ELSE LET detail_url == build_detail_url(card_id)
             html == web[card_id]
             name == IF html.meta.og_title # "" THEN html.meta.og_title
                     ELSE html.meta.title
             image_url == IF html.meta.og_image # "" THEN html.meta.og_image
                          ELSE detail_url
             card == RemoteCard(card_id, name, detail_url, image_url)
         IN  IF html.raised # NoError
                 THEN [self |-> self, ret |-> NoneStr, raised |-> html.raised]
             ELSE IF name = ""
                 THEN [self |-> self, ret |-> NoneStr, raised |-> ErrNoName]
             ELSE [self |-> [self EXCEPT !._cache =
                                [id \in DOMAIN @ \cup {card_id} |->
                                    IF id = card_id THEN card ELSE @[id]]],
                   ret |-> card, raised |-> NoError]

\* fetch_range, line 69-74: the loop from card_id on
RECURSIVE fetch_range_from(_, _, _, _, _)
fetch_range_from(self, web, card_id, last, results) ==
    IF card_id > last THEN [self |-> self, ret |-> results, raised |-> NoError]
    ELSE LET f == fetch(self, web, card_id) IN
         IF f.raised = NoError
             THEN fetch_range_from(f.self, web, card_id + 1, last, Append(results, f.ret))
         ELSE IF f.raised \in SkippedErrors
             THEN fetch_range_from(f.self, web, card_id + 1, last, results)
         ELSE [self |-> f.self, ret |-> NoneStr, raised |-> f.raised]

\* A faulty variant of fetch_range: range(start, end), the last id left out
fetch_range_half_open(self, web, start, end) ==
    IF end < start THEN [self |-> self, ret |-> NoneStr, raised |-> ErrEndBeforeStart]
    ELSE fetch_range_from(self, web, start, end - 1, <<>>)

\* PokemonCardClient.fetch_range(start, end): range(start, end + 1)
fetch_range(self, web, start, end) ==
    IF end < start THEN [self |-> self, ret |-> NoneStr, raised |-> ErrEndBeforeStart]
    ELSE fetch_range_from(self, web, start, end, <<>>)

----------------------------------------------------------------------------
(* game.py: the random source *)

\* random.Random: the generator's state is a number; one draw advances it.
\* (A small congruential generator stands for the Mersenne Twister: like it,
\* the stream of draws is a function of the seed alone.)
RngNext(state) == (state * 33 + 7) % 251

\* random.Random(seed) for an integer seed
SeedState(seed) == RngNext(seed % 251)

\* Random._randbelow(n) on a generator in `state`
randbelow(state, n) == state % n

\* x[i], x[j] = x[j], x[i]   (1-based)
Swap(x, i, j) == [x EXCEPT ![i] = x[j], ![j] = x[i]]

\* random.shuffle(x), from the 1-based index i down:
\* for i in reversed(range(1, len(x))): j = randbelow(i + 1); x[i], x[j] = x[j], x[i]
RECURSIVE shuffle_from(_, _, _)
shuffle_from(state, x, i) ==
    IF i < 2 \/ i > Len(x) THEN [random |-> state, cards |-> x]
    ELSE shuffle_from(RngNext(state), Swap(x, i, randbelow(state, i) + 1), i - 1)

shuffle(state, x) == shuffle_from(state, x, Len(x))

----------------------------------------------------------------------------
(* game.py: PokemonGame *)

\* PokemonGame.__init__, with the generator already built from the seed
PokemonGame(player_one, player_two, random) ==
    [random |-> random,
     players |-> [t \in Turns |-> IF t = PLAYER_ONE THEN player_one ELSE player_two],
     turn |-> PLAYER_ONE,
     turn_count |-> 0,
     log |-> <<>>,
     snapshots |-> <<>>]

\* PokemonGame._snapshot_player
_snapshot_player(player) ==
    LET active == player.active_pokemon IN
    [name |-> player.name,
     deck_size |-> Len(player.deck.cards),
     hand_size |-> Len(player.hand),
     discard_size |-> Len(player.discard_pile),
     prizes_remaining |-> Len(player.prizes),
     active_name |-> IF active # None THEN active.name ELSE NoneStr,
     active_hp |-> player.active_hp,
     active_external_id |-> IF active # None THEN active.external_id ELSE NoId]

\* A faulty variant of _record_snapshot: the new snapshot takes the place of
\* the last one, self.snapshots[-1:] = [snapshot].
_record_snapshot_replacing(self, description, active_turn) ==
    LET turn == IF active_turn # NoneStr THEN active_turn ELSE self.turn
        snapshot == [active_turn |-> turn,
                     turn_count |-> self.turn_count,
                     description |-> description,
                     players |-> [t \in Turns |-> _snapshot_player(self.players[t])]]
    IN [self EXCEPT !.snapshots = SubSeq(@, 1, Len(@) - 1) \o <<snapshot>>]

\* PokemonGame._record_snapshot(description, active_turn=...); NoneStr is None
_record_snapshot(self, description, active_turn) ==
    LET turn == IF active_turn # NoneStr THEN active_turn ELSE self.turn
        snapshot == [active_turn |-> turn,
                     turn_count |-> self.turn_count,
                     description |-> description,
                     players |-> [t \in Turns |-> _snapshot_player(self.players[t])]]
    IN [self EXCEPT !.snapshots = Append(self.snapshots, snapshot)]

\* the opening hand _setup_player draws: player.draw(7)
OpeningHandSize == 7

\* A faulty variant of _setup_player: the result of promote_from_hand is not
\* looked at, so a player without a Pokemon card starts with no active Pokemon.
_setup_player_unchecked(self, turn) ==
    LET player == self.players[turn]
        sh == shuffle(self.random, player.deck.cards)
        cleared == [player EXCEPT !.deck = Deck(sh.cards),
                                  !.hand = <<>>,
                                  !.discard_pile = <<>>,
                                  !.prizes = <<>>,
                                  !.active_pokemon = None,
                                  !.active_hp = 0]
        drawn == Player_draw(cleared, OpeningHandSize)
        prized == Player_setup_prizes(drawn.self, DefaultPrizeCount)
        promoted == Player_promote_from_hand(prized.self)
        with(p) == [self EXCEPT !.random = sh.random, !.players[turn] = p]
    IN  IF drawn.raised # NoError
            THEN [self |-> with(drawn.self), raised |-> drawn.raised]
        ELSE IF prized.raised # NoError
            THEN [self |-> with(prized.self), raised |-> prized.raised]
        ELSE [self |-> with(promoted.self), raised |-> NoError]

\* A faulty variant of _setup_player: the hand is not cleared.
_setup_player_keeping_hand(self, turn) ==
    LET player == self.players[turn]
        sh == shuffle(self.random, player.deck.cards)
        cleared == [player EXCEPT !.deck = Deck(sh.cards),
                                  !.discard_pile = <<>>,
                                  !.prizes = <<>>,
                                  !.active_pokemon = None,
                                  !.active_hp = 0]
        drawn == Player_draw(cleared, OpeningHandSize)
        prized == Player_setup_prizes(drawn.self, DefaultPrizeCount)
        promoted == Player_promote_from_hand(prized.self)
        with(p) == [self EXCEPT !.random = sh.random, !.players[turn] = p]
    IN  IF drawn.raised # NoError
            THEN [self |-> with(drawn.self), raised |-> drawn.raised]
        ELSE IF prized.raised # NoError
            THEN [self |-> with(prized.self), raised |-> prized.raised]
        ELSE IF ~promoted.ret
            THEN [self |-> with(promoted.self), raised |-> ErrNoStart(player.name)]
        ELSE [self |-> with(promoted.self), raised |-> NoError]

\* PokemonGame._setup_player, for the player of `turn`
_setup_player(self, turn) ==
    LET player == self.players[turn]
        sh == shuffle(self.random, player.deck.cards)
        cleared == [player EXCEPT !.deck = Deck(sh.cards),
                                  !.hand = <<>>,
                                  !.discard_pile = <<>>,
                                  !.prizes = <<>>,
                                  !.active_pokemon = None,
                                  !.active_hp = 0]
        drawn == Player_draw(cleared, OpeningHandSize)
        prized == Player_setup_prizes(drawn.self, DefaultPrizeCount)
        promoted == Player_promote_from_hand(prized.self)
        with(p) == [self EXCEPT !.random = sh.random, !.players[turn] = p]
    IN  IF drawn.raised # NoError
            THEN [self |-> with(drawn.self), raised |-> drawn.raised]
        ELSE IF prized.raised # NoError
            THEN [self |-> with(prized.self), raised |-> prized.raised]
        ELSE IF ~promoted.ret
            THEN [self |-> with(promoted.self), raised |-> ErrNoStart(player.name)]
        ELSE [self |-> with(promoted.self), raised |-> NoError]

SetupCompleteLine == "Game setup complete."

OpensLine(player) ==
    player.name \o " opens with " \o player.active_pokemon.name
        \o " (HP " \o ToString(player.active_hp) \o ")."

\* PokemonGame.setup
setup(self) ==
    LET one == _setup_player(self, PLAYER_ONE)
        two == _setup_player(one.self, PLAYER_TWO)
        done == [two.self EXCEPT
                    !.turn = PLAYER_ONE,
                    !.turn_count = 0,
                    !.log = @ \o <<SetupCompleteLine,
                                   OpensLine(two.self.players[PLAYER_ONE]),
                                   OpensLine(two.self.players[PLAYER_TWO])>>,
                    !.snapshots = <<>>]
    IN  IF one.raised # NoError THEN one
        ELSE IF two.raised # NoError THEN two
        ELSE [self |-> _record_snapshot(done, "Setup complete", NoneStr),
              raised |-> NoError]

DeckOutLine(player) == player.name \o " cannot draw and loses by deck out."
DrawsLine(player, card) == player.name \o " draws " \o card.name \o "."

\* A faulty variant of _draw_phase: the card is read with deck.cards[0] and put
\* into the hand, the deck keeps it.
_draw_phase_peeking(self, player_turn, active_turn) ==
    LET player == self.players[player_turn] IN
    IF Len(player.deck.cards) = 0
        THEN [self |-> _record_snapshot(
                           [self EXCEPT !.log = Append(@, DeckOutLine(player))],
                           "Deck out", active_turn),
              ret |-> FALSE]
        ELSE LET card == Head(player.deck.cards)
             IN [self |-> [self EXCEPT !.players[player_turn].hand = Append(@, card),
                                       !.log = Append(@, DrawsLine(player, card))],
                 ret |-> TRUE]

\* PokemonGame._draw_phase(player, active_turn=...), player given by its key
_draw_phase(self, player_turn, active_turn) ==
    LET player == self.players[player_turn] IN
    IF Len(player.deck.cards) = 0
        THEN [self |-> _record_snapshot(
                           [self EXCEPT !.log = Append(@, DeckOutLine(player))],
                           "Deck out", active_turn),
              ret |-> FALSE]
        ELSE LET d == Player_draw(player, 1)
                 card == d.ret[1]
             IN [self |-> [self EXCEPT !.players[player_turn] = d.self,
                                       !.log = Append(@, DrawsLine(player, card))],
                 ret |-> TRUE]

NoActiveLine(attacker) == attacker.name \o " has no active Pokemon and loses the turn."
CannotAttackLine(pokemon) == pokemon.name \o " cannot attack."
UsesLine(attacker, pokemon, attack) ==
    attacker.name \o "'s " \o pokemon.name \o " uses " \o attack.name
        \o " for " \o ToString(attack.damage) \o " damage."
KnockedOutLine(defender) ==
    defender.name \o "'s " \o defender.active_pokemon.name \o " is knocked out!"
TakesPrizeLine(attacker, prize) ==
    attacker.name \o " takes a prize card: " \o prize.name \o "."
FinalPrizeLine(attacker) == attacker.name \o " takes the final prize and wins!"
NoReplacementLine(defender) == defender.name \o " has no replacement Pokemon and loses!"

\* A faulty variant of _attack: the last attack of the card is used,
\* pokemon.attacks[-1].
_attack_with_last(self, attacker_turn, defender_turn) ==
    LET attacker == self.players[attacker_turn]
        defender == self.players[defender_turn]
        pokemon == attacker.active_pokemon
    IN
    IF pokemon = None
        THEN [self |-> [self EXCEPT !.log = Append(@, NoActiveLine(attacker))],
              raised |-> NoError]
    ELSE IF pokemon.attacks = <<>>
        THEN [self |-> [self EXCEPT !.log = Append(@, CannotAttackLine(pokemon))],
              raised |-> NoError]
    ELSE
        LET attack == pokemon.attacks[Len(pokemon.attacks)]
            used == [self EXCEPT !.log = Append(@, UsesLine(attacker, pokemon, attack))]
            damaged == Player_damage_active(defender, attack.damage)
        IN
        IF damaged.raised # NoError
            THEN [self |-> used, raised |-> damaged.raised]
        ELSE IF ~damaged.ret
            THEN [self |-> [used EXCEPT !.players[defender_turn] = damaged.self],
                  raised |-> NoError]
        ELSE
            LET discarded == Player_discard_active(damaged.self)
                taken == Player_take_prize(attacker)
                promoted == Player_promote_from_hand(discarded)
                lines ==
                    <<KnockedOutLine(damaged.self)>>
                    \o (IF taken.ret # None
                            THEN <<TakesPrizeLine(attacker, taken.ret)>> ELSE <<>>)
                    \o (IF taken.self.prizes = <<>>
                            THEN <<FinalPrizeLine(attacker)>> ELSE <<>>)
                    \o (IF ~promoted.ret
                            THEN <<NoReplacementLine(defender)>> ELSE <<>>)
            IN [self |-> [used EXCEPT !.players[attacker_turn] = taken.self,
                                      !.players[defender_turn] = promoted.self,
                                      !.log = @ \o lines],
                raised |-> NoError]

\* PokemonGame._attack(attacker, defender), the players given by their keys
_attack(self, attacker_turn, defender_turn) ==
    LET attacker == self.players[attacker_turn]
        defender == self.players[defender_turn]
        pokemon == attacker.active_pokemon
    IN
    IF pokemon = None
        THEN [self |-> [self EXCEPT !.log = Append(@, NoActiveLine(attacker))],
              raised |-> NoError]
    ELSE IF pokemon.attacks = <<>>
        THEN [self |-> [self EXCEPT !.log = Append(@, CannotAttackLine(pokemon))],
              raised |-> NoError]
    ELSE
        LET attack == pokemon.attacks[1]
            used == [self EXCEPT !.log = Append(@, UsesLine(attacker, pokemon, attack))]
            damaged == Player_damage_active(defender, attack.damage)
        IN
        IF damaged.raised # NoError
            THEN [self |-> used, raised |-> damaged.raised]
        ELSE IF ~damaged.ret
            THEN [self |-> [used EXCEPT !.players[defender_turn] = damaged.self],
                  raised |-> NoError]
        ELSE
            LET discarded == Player_discard_active(damaged.self)
                taken == Player_take_prize(attacker)
                promoted == Player_promote_from_hand(discarded)
                lines ==
                    <<KnockedOutLine(damaged.self)>>
                    \o (IF taken.ret # None
                            THEN <<TakesPrizeLine(attacker, taken.ret)>> ELSE <<>>)
                    \o (IF taken.self.prizes = <<>>
                            THEN <<FinalPrizeLine(attacker)>> ELSE <<>>)
                    \o (IF ~promoted.ret
                            THEN <<NoReplacementLine(defender)>> ELSE <<>>)
            IN [self |-> [used EXCEPT !.players[attacker_turn] = taken.self,
                                      !.players[defender_turn] = promoted.self,
                                      !.log = @ \o lines],
                raised |-> NoError]

\* PokemonGame._check_victory: the loop over self.players.items(), from the i-th key
RECURSIVE check_victory_from(_, _)
check_victory_from(self, i) ==
    IF i > Len(Turn) THEN NoneStr
    ELSE LET turn == Turn[i]
             player == self.players[turn]
         IN IF player.prizes = <<>> THEN turn
            ELSE IF player.active_pokemon = None /\ ~has_pokemon_in_hand(player)
                THEN opposite(turn)
            ELSE check_victory_from(self, i + 1)

\* A faulty variant of _check_victory: the players are visited in the order
\* (player two, player one).
_check_victory_player_two_first(self) ==
    LET one == self.players[PLAYER_ONE]
        two == self.players[PLAYER_TWO]
    IN  IF two.prizes = <<>> THEN PLAYER_TWO
        ELSE IF two.active_pokemon = None /\ ~has_pokemon_in_hand(two) THEN PLAYER_ONE
        ELSE IF one.prizes = <<>> THEN PLAYER_ONE
        ELSE IF one.active_pokemon = None /\ ~has_pokemon_in_hand(one) THEN PLAYER_TWO
        ELSE NoneStr

\* A faulty variant of _check_victory: only the prize piles are looked at, a
\* player without an active card and without a Pokemon card in hand goes on.
_check_victory_prizes_only(self) ==
    IF self.players[PLAYER_ONE].prizes = <<>> THEN PLAYER_ONE
    ELSE IF self.players[PLAYER_TWO].prizes = <<>> THEN PLAYER_TWO
    ELSE NoneStr

\* A faulty variant of _check_victory: a player without an active card and
\* without a Pokemon card in hand is returned itself, not its opponent.
_check_victory_naming_stuck(self) ==
    LET one == self.players[PLAYER_ONE]
        two == self.players[PLAYER_TWO]
    IN  IF one.prizes = <<>> THEN PLAYER_ONE
        ELSE IF one.active_pokemon = None /\ ~has_pokemon_in_hand(one) THEN PLAYER_ONE
        ELSE IF two.prizes = <<>> THEN PLAYER_TWO
        ELSE IF two.active_pokemon = None /\ ~has_pokemon_in_hand(two) THEN PLAYER_TWO
        ELSE NoneStr

_check_victory(self) == check_victory_from(self, 1)

TurnLine(turn_count, player) ==
    "--- Turn " \o ToString(turn_count) \o ": " \o player.name \o " ---"

AfterTurn(turn_count) == "After turn " \o ToString(turn_count)

\* A faulty variant of step: the draw phase's result is ignored, so that a
\* deck-out turn goes on to the attack and the victory check.
step_ignoring_deck_out(self) ==
    LET active_turn == self.turn
        player == self.players[active_turn]
        counted == [self EXCEPT !.turn_count = @ + 1,
                                !.log = Append(@, TurnLine(self.turn_count + 1, player))]
        drawn == _draw_phase(counted, active_turn, active_turn)
        attacked == _attack(drawn.self, active_turn, opposite(active_turn))
        won == _check_victory(attacked.self)
        recorded == _record_snapshot(attacked.self,
                                     AfterTurn(attacked.self.turn_count), active_turn)
    IN  IF attacked.raised # NoError
            THEN [self |-> attacked.self, ret |-> NoneStr, raised |-> attacked.raised]
        ELSE [self |-> [recorded EXCEPT !.turn = opposite(active_turn)],
              ret |-> won, raised |-> NoError]

\* A faulty variant of step: the victory check is made before the attack, so
\* that a win the attack brings is seen one step later.
step_checking_before_attack(self) ==
    LET active_turn == self.turn
        player == self.players[active_turn]
        counted == [self EXCEPT !.turn_count = @ + 1,
                                !.log = Append(@, TurnLine(self.turn_count + 1, player))]
        drawn == _draw_phase(counted, active_turn, active_turn)
        won == _check_victory(drawn.self)
        attacked == _attack(drawn.self, active_turn, opposite(active_turn))
        recorded == _record_snapshot(attacked.self,
                                     AfterTurn(attacked.self.turn_count), active_turn)
    IN  IF ~drawn.ret
            THEN [self |-> drawn.self, ret |-> opposite(active_turn), raised |-> NoError]
        ELSE IF attacked.raised # NoError
            THEN [self |-> attacked.self, ret |-> NoneStr, raised |-> attacked.raised]
        ELSE [self |-> [recorded EXCEPT !.turn = opposite(active_turn)],
              ret |-> won, raised |-> NoError]

\* A faulty variant of step: the active player is flipped only when no winner
\* was found.
step_keeping_turn_on_win(self) ==
    LET active_turn == self.turn
        player == self.players[active_turn]
        counted == [self EXCEPT !.turn_count = @ + 1,
                                !.log = Append(@, TurnLine(self.turn_count + 1, player))]
        drawn == _draw_phase(counted, active_turn, active_turn)
        attacked == _attack(drawn.self, active_turn, opposite(active_turn))
        won == _check_victory(attacked.self)
        recorded == _record_snapshot(attacked.self,
                                     AfterTurn(attacked.self.turn_count), active_turn)
    IN  IF ~drawn.ret
            THEN [self |-> drawn.self, ret |-> opposite(active_turn), raised |-> NoError]
        ELSE IF attacked.raised # NoError
            THEN [self |-> attacked.self, ret |-> NoneStr, raised |-> attacked.raised]
        ELSE [self |-> [recorded EXCEPT
                            !.turn = IF won = NoneStr THEN opposite(active_turn) ELSE @],
              ret |-> won, raised |-> NoError]

\* A faulty variant of step: the acting player's deck is shuffled with
\* self.random before the draw.
step_shuffling_deck(self) ==
    LET active_turn == self.turn
        player == self.players[active_turn]
        sh == shuffle(self.random, player.deck.cards)
        counted == [self EXCEPT !.turn_count = @ + 1,
                                !.random = sh.random,
                                !.players[active_turn].deck = Deck(sh.cards),
                                !.log = Append(@, TurnLine(self.turn_count + 1, player))]
        drawn == _draw_phase(counted, active_turn, active_turn)
        attacked == _attack(drawn.self, active_turn, opposite(active_turn))
        won == _check_victory(attacked.self)
        recorded == _record_snapshot(attacked.self,
                                     AfterTurn(attacked.self.turn_count), active_turn)
    IN  IF ~drawn.ret
            THEN [self |-> drawn.self, ret |-> opposite(active_turn), raised |-> NoError]
        ELSE IF attacked.raised # NoError
            THEN [self |-> attacked.self, ret |-> NoneStr, raised |-> attacked.raised]
        ELSE [self |-> [recorded EXCEPT !.turn = opposite(active_turn)],
              ret |-> won, raised |-> NoError]

\* PokemonGame.step
step(self) ==
    LET active_turn == self.turn
        player == self.players[active_turn]
        counted == [self EXCEPT !.turn_count = @ + 1,
                                !.log = Append(@, TurnLine(self.turn_count + 1, player))]
        drawn == _draw_phase(counted, active_turn, active_turn)
        attacked == _attack(drawn.self, active_turn, opposite(active_turn))
        won == _check_victory(attacked.self)
        recorded == _record_snapshot(attacked.self,
                                     AfterTurn(attacked.self.turn_count), active_turn)
    IN  IF ~drawn.ret
            THEN [self |-> drawn.self, ret |-> opposite(active_turn), raised |-> NoError]
        ELSE IF attacked.raised # NoError
            THEN [self |-> attacked.self, ret |-> NoneStr, raised |-> attacked.raised]
        ELSE [self |-> [recorded EXCEPT !.turn = opposite(active_turn)],
              ret |-> won, raised |-> NoError]

\* PokemonGame.clone; `entropy` is the state of the clone's unseeded generator
clone(self, entropy) ==
    LET cloned_players ==
            [turn \in Turns |->
                LET player == self.players[turn] IN
                Player(player.name, Deck(player.deck.cards), player.hand,
                       player.discard_pile, player.prizes,
                       player.active_pokemon, player.active_hp)]
        fresh == PokemonGame(cloned_players[PLAYER_ONE], cloned_players[PLAYER_TWO],
                             entropy)
    IN [fresh EXCEPT !.turn = self.turn,
                     !.turn_count = self.turn_count,
                     !.log = self.log]

\* The list objects of a controller, named by owner and field: its log and
\* each player's hand, discard pile and prize pile.  (deck.cards is left out: Deck.draw rebinds
\* it to a new list and no step changes the old one.)
ListObjects == {<<"game", "log">>} \cup (Turns \X {"hand", "discard_pile", "prizes"})

\* The list objects clone builds anew: list(player.hand),
\* list(player.discard_pile), list(player.prizes), list(self.log)
clone_copies == {<<"game", "log">>} \cup (Turns \X {"hand", "discard_pile", "prizes"})

\* A faulty variant of clone's copies: hand=player.hand, the same list object
clone_shared_hand(self) == ListObjects \ (clone_copies \ (Turns \X {"hand"}))

\* The list objects a clone has in common with its original: those clone does
\* not copy
clone_shared(self) == ListObjects \ clone_copies

\* What a step does to another controller: step changes the lists in place
\* (log.append, hand.extend, hand.append, del hand[idx], prizes.pop,
\* discard_pile.append), so a list `other` has in common with the stepped
\* controller changes with it.
written_through(other, stepped, common) ==
    [other EXCEPT
        !.log = IF <<"game", "log">> \in common THEN stepped.log ELSE @,
        !.players = [turn \in Turns |->
            [@[turn] EXCEPT
                !.hand = IF <<turn, "hand">> \in common
                            THEN stepped.players[turn].hand ELSE @,
                !.discard_pile = IF <<turn, "discard_pile">> \in common
                            THEN stepped.players[turn].discard_pile ELSE @,
                !.prizes = IF <<turn, "prizes">> \in common
                            THEN stepped.players[turn].prizes ELSE @]]]

----------------------------------------------------------------------------
(* The cards and decks the callers build *)

\* tests/test_gameplay.py: build_linear_deck("P1", hp=60, damage=30) and ("P2", 50, 20)
P1Pokemon == PokemonCard("P1 Pokemon", 60, <<Attack("Hit", 30)>>)
P2Pokemon == PokemonCard("P2 Pokemon", 50, <<Attack("Hit", 20)>>)
\* main.py: build_demo_deck's second card
Raichu == PokemonCard("Raichu", 90, <<Attack("Electro Ball", 50)>>)
\* a Pokemon card built with the default attacks=[]
Wall == PokemonCard("Wall", 30, <<>>)
\* a card that is no Pokemon card
Energy == EnergyCard("Energy")
\* main.py: build_demo_deck's first card, with a second attack
Pikachu == PokemonCard("Pikachu", 60, <<Attack("Thunder Jolt", 30), Attack("Thunderbolt", 90)>>)

\* the cards setup takes from a deck: the opening hand and the prizes
SetupCards == OpeningHandSize + DefaultPrizeCount

DeckSizes == SetupCards .. (SetupCards + MaxExtra)

\* two Pokemon cards on top of Energy cards
MixedDeck(n) == <<Wall, Raichu>> \o Repeat(Energy, n - 2)

DecksOne ==
    {Repeat(Raichu, n) : n \in DeckSizes} \cup {Repeat(P1Pokemon, n) : n \in DeckSizes}
        \cup {MixedDeck(n) : n \in DeckSizes}

DecksTwo ==
    {Repeat(P2Pokemon, n) : n \in DeckSizes} \cup {MixedDeck(n) : n \in DeckSizes}

Seeds == 0 .. (NumSeeds - 1)

\* seed=None
NoSeed == -1

\* the states an unseeded random.Random() may start in
Entropy == {SeedState(s) : s \in Seeds}

\* A faulty variant of the construction: the seed is not handed on to
\* random.Random, which then starts from the system's entropy.
Build_unseeded(args, entropy) ==
    PokemonGame(NewPlayer("Player 1", from_iterable(args.deck_one)),
                NewPlayer("Player 2", from_iterable(args.deck_two)),
                entropy)

\* PokemonGame(Player("Player 1", deck_one), Player("Player 2", deck_two), seed=seed)
Build(args, entropy) ==
    PokemonGame(NewPlayer("Player 1", from_iterable(args.deck_one)),
                NewPlayer("Player 2", from_iterable(args.deck_two)),
                IF args.seed = NoSeed THEN entropy ELSE SeedState(args.seed))

\* no step() call was made since clone(), on either controller
NoReturns == [game |-> <<>>, clone |-> <<>>]

\* what a step() call gave its caller: the winner it returned (None for no
\* winner), or the exception it raised
Outcome(r) == IF r.raised = NoError THEN r.ret ELSE r.raised

Call(op, arg, pre, ret, raised) ==
    [op |-> op, arg |-> arg, pre |-> pre, ret |-> ret, raised |-> raised]

InitWith(d1s, d2s, seeds) ==
    \E d1 \in d1s, d2 \in d2s, seed \in seeds, entropy \in Entropy :
        /\ built = [deck_one |-> d1, deck_two |-> d2, seed |-> seed]
        /\ game = Build(built, entropy)
        /\ clones = <<>>
        /\ shared = {}
        /\ client = PokemonCardClient
        /\ the_web = <<>>
        /\ a_player = NewPlayer("Player", from_iterable(<<>>))
        /\ call = Call("__init__", 0, game, NoneStr, NoError)
        /\ ready = FALSE
        /\ setups = 0
        /\ pc = "idle"
        /\ max_turns = 0
        /\ winner = NoneStr
        /\ steps = 0
        /\ runs = <<>>
        /\ returned = NoReturns

Init == InitWith(DecksOne, DecksTwo, Seeds)

----------------------------------------------------------------------------
(* The calls a caller makes on the controller *)

\* game.setup()
CallSetup ==
    /\ pc = "idle"
    /\ setups < MaxSetups
    /\ LET r == setup(game) IN
        /\ game' = r.self
        /\ call' = Call("setup", 0, game, NoneStr, r.raised)
        /\ ready' = (r.raised = NoError)
    /\ setups' = setups + 1
    /\ UNCHANGED <<returned, the_web, client, a_player, built, clones, shared, pc, max_turns, winner, steps, runs>>

\* game.step()
CallStep ==
    /\ pc = "idle"
    /\ game.turn_count < MaxSteps
    /\ LET r == step(game) IN
        /\ game' = r.self
        /\ clones' = [i \in DOMAIN clones |-> written_through(clones[i], r.self, shared)]
        /\ call' = Call("step", 0, game, r.ret, r.raised)
        /\ returned' = IF clones = <<>> THEN returned
                       ELSE [returned EXCEPT !.game = Append(@, Outcome(r))]
    /\ UNCHANGED <<the_web, client, a_player, built, shared, ready, setups, pc, max_turns, winner, steps, runs>>

\* game.clone()
CallClone ==
    /\ pc = "idle"
    /\ clones = <<>>
    /\ \E entropy \in Entropy : clones' = <<clone(game, entropy)>>
    /\ shared' = clone_shared(game)
    /\ call' = Call("clone", 0, game, NoneStr, NoError)
    /\ returned' = NoReturns
    /\ UNCHANGED <<the_web, client, a_player, game, built, ready, setups, pc, max_turns, winner, steps, runs>>

\* clone.step(), on the controller clone() returned
CallCloneStep ==
    /\ pc = "idle"
    /\ clones # <<>>
    /\ clones[1].turn_count < MaxSteps
    /\ LET r == step(clones[1]) IN
        /\ clones' = <<r.self>>
        /\ game' = written_through(game, r.self, shared)
        /\ call' = Call("clone.step", 0, game, r.ret, r.raised)
        /\ returned' = [returned EXCEPT !.clone = Append(@, Outcome(r))]
    /\ UNCHANGED <<the_web, client, a_player, shared, built, ready, setups, pc, max_turns, winner, steps, runs>>

----------------------------------------------------------------------------
(* play(max_turns=...): the caller's position inside it is pc *)

\* GameResult(winner=winner, log=list(self.log), snapshots=list(self.snapshots))
GameResult(win, log, snapshots) == [winner |-> win, log |-> log, snapshots |-> snapshots]

\* the value `result` holds when play raised instead of returning
NoResult == GameResult(NoneStr, <<>>, <<>>)

TurnLimitLine == "Game ended due to turn limit."
WinnerLine(player) == "Winner: " \o player.name

\* the max_turns the callers pass: small ones and the test's max_turns=40
TestMaxTurns == 40
MaxTurnsArgs == (0 .. MaxTurns) \cup {TestMaxTurns}

\* a play() call that has ended, by returning `result` or by raising `raised`
Run(m, raised, res) ==
    [built |-> built, max_turns |-> m, raised |-> raised, result |-> res]

\* play, line 192-193: self.setup(); winner = None
PlayBegin ==
    /\ pc = "idle"
    /\ setups < MaxSetups
    /\ \E m \in MaxTurnsArgs : max_turns' = m
    /\ LET r == setup(game) IN
        /\ game' = r.self
        /\ ready' = (r.raised = NoError)
        /\ IF r.raised = NoError
             THEN /\ pc' = "loop"
                  /\ call' = Call("setup", 0, game, NoneStr, NoError)
                  /\ runs' = runs
             ELSE /\ pc' = "idle"
                  /\ call' = Call("play", max_turns', game, NoResult, r.raised)
                  /\ runs' = Append(runs, Run(max_turns', r.raised, NoResult))
    /\ setups' = setups + 1
    /\ winner' = NoneStr
    /\ steps' = 0
    /\ UNCHANGED <<returned, the_web, client, a_player, built, clones, shared>>

\* A faulty variant of the loop: its condition reads turn_count <= max_turns.
PlayLoop_one_more ==
    /\ pc = "loop"
    /\ winner = NoneStr /\ game.turn_count <= max_turns
    /\ LET r == step(game) IN
        /\ game' = r.self
        /\ IF r.raised = NoError
             THEN /\ pc' = "loop"
                  /\ winner' = r.ret
                  /\ call' = Call("step", 0, game, r.ret, NoError)
                  /\ runs' = runs
             ELSE /\ pc' = "idle"
                  /\ winner' = winner
                  /\ call' = Call("play", max_turns, game, NoResult, r.raised)
                  /\ runs' = Append(runs, Run(max_turns, r.raised, NoResult))
    /\ steps' = steps + 1
    /\ UNCHANGED <<returned, the_web, client, a_player, built, clones, shared, ready, setups, max_turns>>

\* play, line 194-195: while winner is None and self.turn_count < max_turns: winner = self.step()
PlayLoop ==
    /\ pc = "loop"
    /\ winner = NoneStr /\ game.turn_count < max_turns
    /\ LET r == step(game) IN
        /\ game' = r.self
        /\ IF r.raised = NoError
             THEN /\ pc' = "loop"
                  /\ winner' = r.ret
                  /\ call' = Call("step", 0, game, r.ret, NoError)
                  /\ runs' = runs
             ELSE /\ pc' = "idle"
                  /\ winner' = winner
                  /\ call' = Call("play", max_turns, game, NoResult, r.raised)
                  /\ runs' = Append(runs, Run(max_turns, r.raised, NoResult))
    /\ steps' = steps + 1
    /\ UNCHANGED <<returned, the_web, client, a_player, built, clones, shared, ready, setups, max_turns>>

\* A faulty variant of the end of play: the "Game end" snapshot is recorded
\* without active_turn, so it carries self.turn.
play_end_untagged(self, win) ==
    LET logged == [self EXCEPT !.log = Append(@,
                        IF win = NoneStr THEN TurnLimitLine
                        ELSE WinnerLine(self.players[win]))]
        ended == _record_snapshot(logged, "Game end", NoneStr)
    IN [self |-> ended, ret |-> GameResult(win, ended.log, ended.snapshots)]

\* play, line 196-201: the loop has ended
play_end(self, win) ==
    LET logged == [self EXCEPT !.log = Append(@,
                        IF win = NoneStr THEN TurnLimitLine
                        ELSE WinnerLine(self.players[win]))]
        ended == _record_snapshot(logged, "Game end", opposite(logged.turn))
    IN [self |-> ended, ret |-> GameResult(win, ended.log, ended.snapshots)]

PlayEnd ==
    /\ pc = "loop"
    /\ ~(winner = NoneStr /\ game.turn_count < max_turns)
    /\ LET r == play_end(game, winner) IN
        /\ game' = r.self
        /\ call' = Call("play", max_turns, game, r.ret, NoError)
        /\ runs' = Append(runs, Run(max_turns, NoError, r.ret))
    /\ pc' = "idle"
    /\ UNCHANGED <<returned, the_web, client, a_player, built, clones, shared, ready, setups, max_turns, winner, steps>>

----------------------------------------------------------------------------
(* The calls a caller makes on a Player of its own and on its deck *)

\* the longest deck and the longest hand such a Player starts with (draws make
\* the hand longer)
MaxDeck == 3
MaxHand == 1

\* the cards of these decks and hands
PlayerCards == {Raichu, Wall, Energy}

SeqsUpTo(S, n) == UNION {[1..k -> S] : k \in 0..n}

\* a deck of n cards, no two neighbours alike: Raichu, Wall, Energy, Raichu, ...
LongDeck(n) == [i \in 1..n |-> <<Raichu, Wall, Energy>>[((i - 1) % 3) + 1]]

\* decks that hold the default prize count and more
PrizeDecks == {LongDeck(DefaultPrizeCount + extra) : extra \in 0..MaxExtra}

\* Player(name, deck, hand=...) for every one of the decks and of the hands
PlayerInitWith(decks, hands) ==
    /\ \E cards \in decks, hand \in hands :
        a_player = Player("Player", from_iterable(cards), hand, <<>>, <<>>, None, 0)
    /\ built = [deck_one |-> <<>>, deck_two |-> <<>>, seed |-> 0]
    /\ game = Build(built, 0)
    /\ clones = <<>>
    /\ shared = {}
    /\ client = PokemonCardClient
    /\ the_web = <<>>
    /\ call = Call("Player", 0, a_player, NoneStr, NoError)
    /\ ready = FALSE
    /\ setups = 0
    /\ pc = "idle"
    /\ max_turns = 0
    /\ winner = NoneStr
    /\ steps = 0
    /\ runs = <<>>
    /\ returned = NoReturns

\* a Player with any small deck
PlayerInit == PlayerInitWith(SeqsUpTo(PlayerCards, MaxDeck), SeqsUpTo(PlayerCards, MaxHand))

\* a Player with a deck large enough for the prizes
PrizeInit == PlayerInitWith(PrizeDecks, SeqsUpTo(PlayerCards, MaxHand))

\* a Player that has no deck left and holds all the cards of a small deck
ActiveInit == PlayerInitWith({<<>>}, SeqsUpTo(PlayerCards, MaxDeck))

\* the n a caller passes to draw: from negative to more than any deck holds
DrawArgs == (0 - 1) .. (MaxDeck + 1)

\* player.deck.draw(n)
CallDeckDraw ==
    /\ \E n \in DrawArgs :
        LET r == Deck_draw(a_player.deck, n) IN
        /\ a_player' = [a_player EXCEPT !.deck = r.self]
        /\ call' = Call("Deck.draw", n, a_player, r.ret, r.raised)
    /\ UNCHANGED <<returned, the_web, client, game, built, clones, shared, ready, setups, pc, max_turns, winner,
                   steps, runs>>

\* player.draw(n)
CallPlayerDraw ==
    /\ \E n \in DrawArgs :
        LET r == Player_draw(a_player, n) IN
        /\ a_player' = r.self
        /\ call' = Call("Player.draw", n, a_player, r.ret, r.raised)
    /\ UNCHANGED <<returned, the_web, client, game, built, clones, shared, ready, setups, pc, max_turns, winner,
                   steps, runs>>

\* the count a caller passes to setup_prizes: the default and the draw sizes
PrizeArgs == DrawArgs \cup {DefaultPrizeCount}

\* player.setup_prizes(count)
CallSetupPrizes ==
    /\ \E count \in PrizeArgs :
        LET r == Player_setup_prizes(a_player, count) IN
        /\ a_player' = r.self
        /\ call' = Call("Player.setup_prizes", count, a_player, NoneStr, r.raised)
    /\ UNCHANGED <<returned, the_web, client, game, built, clones, shared, ready, setups, pc, max_turns, winner,
                   steps, runs>>

\* player.promote_from_hand()
CallPromote ==
    /\ LET r == Player_promote_from_hand(a_player) IN
        /\ a_player' = r.self
        /\ call' = Call("Player.promote_from_hand", 0, a_player, r.ret, NoError)
    /\ UNCHANGED <<returned, the_web, client, game, built, clones, shared, ready, setups, pc, max_turns, winner,
                   steps, runs>>

\* the amounts a caller passes to damage_active: nothing, the hit points of
\* the cards and the damage of an attack
Amounts == {0} \cup {card.hp : card \in PlayerCards} \cup {Raichu.attacks[1].damage}

\* player.damage_active(amount)
CallDamage ==
    /\ \E amount \in Amounts :
        LET r == Player_damage_active(a_player, amount) IN
        /\ a_player' = r.self
        /\ call' = Call("Player.damage_active", amount, a_player, r.ret, r.raised)
    /\ UNCHANGED <<returned, the_web, client, game, built, clones, shared, ready, setups, pc, max_turns, winner,
                   steps, runs>>

\* player.discard_active()
CallDiscardActive ==
    /\ a_player' = Player_discard_active(a_player)
    /\ call' = Call("Player.discard_active", 0, a_player, NoneStr, NoError)
    /\ UNCHANGED <<returned, the_web, client, game, built, clones, shared, ready, setups, pc, max_turns, winner,
                   steps, runs>>

----------------------------------------------------------------------------
(* The calls a caller makes on a PokemonCardClient *)

\* tests/test_card_data.py: the first card id of responses
TestFirstId == 100

\* how many card ids there are
MaxIds == 3

CardIds == TestFirstId .. (TestFirstId + MaxIds - 1)

\* tests/test_card_data.py: html_ok, and a page without a title
HtmlOk == Meta("Bulbasaur", "", "https://example.com/bulba.png")
HtmlNoTitle == Meta("", "", "https://example.com/bulba.png")

\* what the web does for each card id: a page, or one of the exceptions
Webs ==
    [CardIds -> {Page(HtmlOk), Page(HtmlNoTitle), Raises(ErrNotFound), Raises(ErrURL),
                 Raises(ErrTimeout)}]

\* client.fetch(card_id)
CallFetch ==
    /\ \E card_id \in CardIds :
        LET r == fetch(client, the_web, card_id) IN
        /\ client' = r.self
        /\ call' = Call("fetch", card_id, [client |-> client, web |-> the_web], r.ret, r.raised)
    /\ UNCHANGED <<returned, the_web, game, a_player, built, clones, shared, ready, setups, pc,
                   max_turns, winner, steps, runs>>

\* client.fetch_range(start, end)
CallFetchRange ==
    /\ \E start \in CardIds, end \in CardIds :
        LET r == fetch_range(client, the_web, start, end) IN
        /\ client' = r.self
        /\ call' = Call("fetch_range", <<start, end>>, [client |-> client, web |-> the_web],
                        r.ret, r.raised)
    /\ UNCHANGED <<returned, the_web, game, a_player, built, clones, shared, ready, setups, pc,
                   max_turns, winner, steps, runs>>

\* the page of a card goes away: from now on its download raises URLError
PageGoesAway ==
    /\ \E card_id \in CardIds :
        /\ the_web[card_id].raised = NoError
        /\ the_web' = [the_web EXCEPT ![card_id] = Raises(ErrURL)]
    /\ call' = Call("urlopen", 0, [client |-> client, web |-> the_web], NoneStr, NoError)
    /\ UNCHANGED <<returned, client, game, a_player, built, clones, shared, ready, setups, pc,
                   max_turns, winner, steps, runs>>

----------------------------------------------------------------------------
(* The victory check on a controller built around any two players *)

\* Player(name, deck, hand=..., prizes=..., active_pokemon=..., active_hp=...):
\* any small hand, no prize or one, no active card or one
VictoryPlayers(name) ==
    {Player(name, from_iterable(<<>>), hand, <<>>, prizes, active, active.hp) :
        hand \in SeqsUpTo(PlayerCards, MaxHand),
        prizes \in SeqsUpTo({Energy}, MaxHand),
        active \in {None, Wall}}

\* PokemonGame(player_one, player_two) for any two such players
VictoryInit ==
    /\ \E one \in VictoryPlayers("Player 1"), two \in VictoryPlayers("Player 2") :
        game = PokemonGame(one, two, SeedState(0))
    /\ built = [deck_one |-> <<>>, deck_two |-> <<>>, seed |-> 0]
    /\ client = PokemonCardClient
    /\ the_web = <<>>
    /\ a_player = NewPlayer("Player", from_iterable(<<>>))
    /\ clones = <<>>
    /\ shared = {}
    /\ call = Call("__init__", 0, game, NoneStr, NoError)
    /\ ready = FALSE
    /\ setups = 0
    /\ pc = "idle"
    /\ max_turns = 0
    /\ winner = NoneStr
    /\ steps = 0
    /\ runs = <<>>
    /\ returned = NoReturns

\* game._check_victory()
CallCheckVictory ==
    /\ call' = Call("_check_victory", 0, game, _check_victory(game), NoError)
    /\ UNCHANGED <<returned, game, client, the_web, a_player, built, clones, shared, ready, setups,
                   pc, max_turns, winner, steps, runs>>

----------------------------------------------------------------------------
(* Specifications *)

\* a caller that calls setup() and step() on one controller, in any order
Next == CallSetup \/ CallStep

Spec == Init /\ [][Next]_vars

\* a caller that sets the game up, steps it, clones it and steps the clone
CloneNext ==
    \/ (setups = 0 /\ game.turn_count = 0 /\ CallSetup)
    \/ (setups > 0 /\ CallStep)
    \/ (setups > 0 /\ CallClone)
    \/ CallCloneStep

CloneSpec == Init /\ [][CloneNext]_vars

\* tests/test_gameplay.py: Deck.from_iterable([card] * 60)
TestDeckSize == 60

\* a deck too small for the opening hand and the prizes
ShortDeckSize == SetupCards - 1

\* a deck too small for the opening hand
TinyDeckSize == OpeningHandSize - 1

PlayDecksOne ==
    {Repeat(P1Pokemon, TestDeckSize), Repeat(P1Pokemon, ShortDeckSize),
     Repeat(P1Pokemon, TinyDeckSize), Repeat(Energy, SetupCards),
     MixedDeck(SetupCards + 1)}
        \cup {Repeat(P1Pokemon, n) : n \in DeckSizes}

PlayDecksTwo ==
    {Repeat(P2Pokemon, TestDeckSize), Repeat(Raichu, TestDeckSize),
     Repeat(P2Pokemon, ShortDeckSize), Repeat(Energy, SetupCards),
     MixedDeck(SetupCards + 1)}
        \cup {Repeat(P2Pokemon, n) : n \in DeckSizes}

PlayInit == InitWith(PlayDecksOne, PlayDecksTwo, Seeds \cup {NoSeed})

\* the caller builds the same match again: same decks, same seed argument
Rebuild ==
    /\ pc = "idle"
    /\ Len(runs) = 1
    /\ call.op = "play"
    /\ \E entropy \in Entropy : game' = Build(built, entropy)
    /\ call' = Call("__init__", 0, game', NoneStr, NoError)
    /\ ready' = FALSE
    /\ setups' = 0
    /\ winner' = NoneStr
    /\ steps' = 0
    /\ UNCHANGED <<returned, the_web, client, a_player, built, clones, shared, pc, max_turns, runs>>

\* a caller that draws from a Player and from its deck and sets prizes aside
PlayerNext == CallDeckDraw \/ CallPlayerDraw \/ CallSetupPrizes

PlayerSpec == PlayerInit /\ [][PlayerNext]_vars

\* a caller that sets prizes aside, again and again, from a large deck
PrizeNext == CallSetupPrizes

PrizeSpec == PrizeInit /\ [][PrizeNext]_vars

\* a caller that promotes, damages and discards the active card of a Player
ActiveNext == CallPromote \/ CallDamage \/ CallDiscardActive

ActiveSpec == ActiveInit /\ [][ActiveNext]_vars

\* a caller that looks cards up, one by one and by range
FetchNext == CallFetch \/ CallFetchRange \/ PageGoesAway

\* a fresh client and any web
FetchInit ==
    /\ the_web \in Webs
    /\ client = PokemonCardClient
    /\ built = [deck_one |-> <<>>, deck_two |-> <<>>, seed |-> 0]
    /\ game = Build(built, 0)
    /\ a_player = NewPlayer("Player", from_iterable(<<>>))
    /\ clones = <<>>
    /\ shared = {}
    /\ call = Call("PokemonCardClient", 0, [client |-> client, web |-> the_web], NoneStr, NoError)
    /\ ready = FALSE
    /\ setups = 0
    /\ pc = "idle"
    /\ max_turns = 0
    /\ winner = NoneStr
    /\ steps = 0
    /\ runs = <<>>
    /\ returned = NoReturns

FetchSpec == FetchInit /\ [][FetchNext]_vars

\* a caller that asks a controller for the winner
VictoryNext == CallCheckVictory

VictorySpec == VictoryInit /\ [][VictoryNext]_vars

\* Player(name, deck, hand=..., prizes=..., active_pokemon=..., active_hp=...)
\* in the middle of a match: a card to draw for every step, any small hand, no
\* prize or one, no active card or Pikachu
BoardPlayers(name) ==
    {Player(name, from_iterable(Repeat(Energy, MaxSteps)), hand, <<>>, prizes, active,
            active.hp) :
        hand \in SeqsUpTo(PlayerCards, MaxHand),
        prizes \in SeqsUpTo({Energy}, MaxHand),
        active \in {None, Pikachu}}

\* PokemonGame(player_one, player_two) for any two such players
BoardInit ==
    /\ \E one \in BoardPlayers("Player 1"), two \in BoardPlayers("Player 2") :
        game = PokemonGame(one, two, SeedState(0))
    /\ built = [deck_one |-> Repeat(Energy, MaxSteps), deck_two |-> Repeat(Energy, MaxSteps),
                seed |-> 0]
    /\ client = PokemonCardClient
    /\ the_web = <<>>
    /\ a_player = NewPlayer("Player", from_iterable(<<>>))
    /\ clones = <<>>
    /\ shared = {}
    /\ call = Call("__init__", 0, game, NoneStr, NoError)
    /\ ready = FALSE
    /\ setups = 0
    /\ pc = "idle"
    /\ max_turns = 0
    /\ winner = NoneStr
    /\ steps = 0
    /\ runs = <<>>
    /\ returned = NoReturns

\* the same caller, the Pokemon cards having two attacks: on a controller
\* built from decks, and on one built around players in the middle of a match
AttackInit ==
    \/ InitWith({Repeat(Pikachu, n) : n \in DeckSizes},
                DecksTwo \cup {Repeat(Pikachu, SetupCards)}, Seeds)
    \/ BoardInit

AttackSpec == AttackInit /\ [][Next]_vars

\* a caller that calls setup(), step() and play() on one controller, in any
\* order
ApiNext == CallSetup \/ CallStep \/ PlayBegin \/ PlayLoop \/ PlayEnd

\* a deck that holds the cards of two setups, and some to draw
ApiDeckSize == SetupCards + SetupCards + MaxExtra

ApiInit ==
    InitWith({Repeat(P1Pokemon, ApiDeckSize)}, {Repeat(P2Pokemon, ApiDeckSize)}, {0})

ApiSpec == ApiInit /\ [][ApiNext]_vars

\* a deck of two kinds of card that holds the cards of two setups, and some to
\* draw
TwoKindDeck(first, second) ==
    Repeat(first, SetupCards) \o Repeat(second, SetupCards + MaxExtra)

\* the same caller as Spec's, on decks that last for a second setup
LongInit ==
    InitWith({TwoKindDeck(P1Pokemon, Raichu), TwoKindDeck(Raichu, Energy)},
             {TwoKindDeck(P2Pokemon, Wall), TwoKindDeck(P2Pokemon, Energy)}, Seeds)

LongSpec == LongInit /\ [][Next]_vars

\* a caller that builds a match and runs it with play, then once more
PlayNext ==
    \/ (setups = 0 /\ PlayBegin)
    \/ PlayLoop
    \/ PlayEnd
    \/ Rebuild

PlaySpec == PlayInit /\ [][PlayNext]_vars

\* a caller that builds a match and runs it with play, once
PlayOnceNext ==
    \/ (setups = 0 /\ PlayBegin)
    \/ PlayLoop
    \/ PlayEnd

\* play is running and moves on: it makes a step of its loop (steps goes up)
\* or leaves the loop and returns (pc changes).  Of the caller's actions only
\* PlayLoop and PlayEnd are such steps.
PlayGoesOn ==
    /\ pc = "loop"
    /\ pc' \in {"loop", "idle"}
    /\ steps' \in {steps, steps + 1}
    /\ <<pc', steps'>> # <<pc, steps>>

\* play, once called, goes on: the interpreter runs the loop and what follows
\* it, nothing suspends them
PlayLiveSpec == PlayInit /\ [][PlayOnceNext]_vars /\ WF_<<pc, steps>>(PlayGoesOn)

----------------------------------------------------------------------------
(* Properties *)

Last(seq) == seq[Len(seq)]

\* the last call was a step() that returned or raised
IsStep == call.op = "step"

\* the player whose turn it was when the last call began
Acting == call.pre.players[call.pre.turn]

\* the last call was a step() made with the acting player's deck empty
DeckOutStep == IsStep /\ Len(Acting.deck.cards) = 0

\* C1: a step taken with the acting player's deck empty returns the opponent as
\* winner whatever the board holds: both players (piles, active Pokemon, hit
\* points) are as before, the turn counter is up by one, the log gains the turn
\* header and the deck-out line only, and exactly one snapshot is added, captioned
\* "Deck out" (so none is captioned "After turn N").
C1_DeckOutLoses ==
    DeckOutStep =>
        /\ call.raised = NoError
        /\ call.ret = opposite(call.pre.turn)
        /\ game.players = call.pre.players
        /\ game.turn = call.pre.turn
        /\ game.turn_count = call.pre.turn_count + 1
        /\ game.log = call.pre.log
                \o <<TurnLine(game.turn_count, Acting), DeckOutLine(Acting)>>
        /\ Len(game.snapshots) = Len(call.pre.snapshots) + 1
        /\ SubSeq(game.snapshots, 1, Len(call.pre.snapshots)) = call.pre.snapshots
        /\ Last(game.snapshots).description = "Deck out"
        /\ Last(game.snapshots).description # AfterTurn(game.turn_count)

\* C1 witness: a deck-out step whose loser would have won the victory check (the
\* opponent has no active Pokemon and none in hand), with prizes still on the board
C1_Witness ==
    /\ DeckOutStep
    /\ ready
    /\ _check_victory(call.pre) = call.pre.turn
    /\ call.ret = opposite(call.pre.turn)
    /\ Acting.prizes # <<>>
    /\ Acting.active_pokemon # None

\* play() has returned a GameResult (call.ret)
PlayReturned == call.op = "play" /\ call.raised = NoError

\* the match of tests/test_gameplay.py: 60 P1 Pokemon (60 HP, 30 damage) against
\* 60 P2 Pokemon (50 HP, 20 damage), run with play(max_turns=40)
TestMatch ==
    /\ built.deck_one = Repeat(P1Pokemon, TestDeckSize)
    /\ built.deck_two = Repeat(P2Pokemon, TestDeckSize)
    /\ max_turns = TestMaxTurns

\* C2: the test match is decided within 40 turns, Player 1 wins it, the log has
\* the "takes the final prize" line, and the snapshots run from "Setup complete"
\* to "Game end".
C2_TestMatchWonByPlayerOne ==
    (TestMatch /\ PlayReturned) =>
        /\ call.ret.winner = PLAYER_ONE
        /\ game.players[call.ret.winner].name = "Player 1"
        /\ game.turn_count <= TestMaxTurns
        /\ steps <= TestMaxTurns
        /\ \E i \in 1..Len(call.ret.log) :
                call.ret.log[i] = FinalPrizeLine(game.players[PLAYER_ONE])
        /\ call.ret.snapshots # <<>>
        /\ call.ret.snapshots[1].description = "Setup complete"
        /\ Last(call.ret.snapshots).description = "Game end"

\* C2 witness: the test match has returned, after Player 1 took its sixth prize
C2_Witness ==
    /\ TestMatch
    /\ PlayReturned
    /\ call.ret.winner = PLAYER_ONE
    /\ game.players[PLAYER_ONE].prizes = <<>>
    /\ Len(game.players[PLAYER_TWO].discard_pile) = DefaultPrizeCount

\* two play() calls were made with the same decks, seed and max_turns
SameMatch(a, b) ==
    /\ a.built = b.built
    /\ a.built.seed # NoSeed
    /\ a.max_turns = b.max_turns

\* C3: two runs of play on freshly built controllers with the same decks, the
\* same seed and the same max_turns end alike: the same exception or the same
\* winner, log and snapshot sequence; and no step() touches the random source.
C3_SameSeedSameMatch ==
    /\ \A i, j \in 1..Len(runs) :
            SameMatch(runs[i], runs[j]) =>
                /\ runs[i].raised = runs[j].raised
                /\ runs[i].result.winner = runs[j].result.winner
                /\ runs[i].result.log = runs[j].result.log
                /\ runs[i].result.snapshots = runs[j].result.snapshots
    /\ IsStep => game.random = call.pre.random

\* the deck's cards are not all the same card, so that its order matters
Shuffled(deck) == \E i, j \in 1..Len(deck) : deck[i] # deck[j]

\* C3 witness: the same seeded match of two shuffled decks was played twice,
\* each time to a winner
C3_Witness ==
    /\ Len(runs) = 2
    /\ SameMatch(runs[1], runs[2])
    /\ Shuffled(built.deck_one) /\ Shuffled(built.deck_two)
    /\ runs[1].raised = NoError
    /\ runs[2].result.winner # NoneStr
    /\ runs[2].max_turns > 0

\* line i of the log is `line`, for some i
Logged(log, line) == \E i \in 1..Len(log) : log[i] = line

\* what C4 says of a state: play has made at most max_turns steps, and the
\* result it returns is the loop's winner, with the turn-limit line in the log
\* exactly when there is none
C4_State ==
    /\ (pc = "loop" \/ call.op = "play") => steps <= max_turns
    /\ PlayReturned =>
        /\ call.ret.winner = winner
        /\ (winner = NoneStr) =>
                /\ steps = max_turns
                /\ Logged(call.ret.log, TurnLimitLine)
        /\ (winner # NoneStr) => ~Logged(call.ret.log, TurnLimitLine)

\* C4: play(max_turns=M) makes at most M steps; when M steps returned no winner
\* (or M = 0) the result's winner is none and the turn-limit line is logged; once
\* a step has returned a winner no further step is made, and that winner is the
\* result's, with no turn-limit line.
C4_TurnCeiling ==
    /\ []C4_State
    /\ [][(pc = "loop" /\ winner # NoneStr) => (steps' = steps /\ pc' = "idle")]_vars

\* C4 witness: play returned at the ceiling, after max_turns > 0 steps, no winner
C4_Witness ==
    /\ PlayReturned
    /\ max_turns > 0
    /\ steps = max_turns
    /\ call.ret.winner = NoneStr
    /\ Last(call.ret.log) = TurnLimitLine

\* C5: after a successful setup and any steps, a player's active Pokemon has
\* between 0 and its printed hit points.
C5_ActiveHpInRange ==
    ready =>
        \A t \in Turns :
            LET player == game.players[t] IN
            player.active_pokemon # None =>
                /\ 0 <= player.active_hp
                /\ player.active_hp <= player.active_pokemon.hp

\* C5 witness: a step after setup has damaged the defender's active Pokemon
\* without knocking it out
C5_Witness ==
    /\ ready
    /\ IsStep
    /\ LET defender == game.players[opposite(call.pre.turn)] IN
        /\ defender.active_pokemon # None
        /\ 0 < defender.active_hp
        /\ defender.active_hp < defender.active_pokemon.hp

\* the last call was a setup() that returned
SetupReturned == call.op = "setup" /\ call.raised = NoError

\* C6: after a successful setup each player has 6 cards in hand, 6 prizes, an
\* empty discard pile, an active Pokemon at its printed hit points and 13 cards
\* fewer in the deck; it is player one's turn, the turn counter is 0 and the
\* snapshots are exactly one, captioned "Setup complete".
C6_SetupPostcondition ==
    SetupReturned =>
        /\ \A t \in Turns :
            LET player == game.players[t] IN
            /\ Len(player.hand) = OpeningHandSize - 1
            /\ Len(player.prizes) = DefaultPrizeCount
            /\ player.discard_pile = <<>>
            /\ player.active_pokemon # None
            /\ player.active_hp = player.active_pokemon.hp
            /\ Len(player.deck.cards) = Len(call.pre.players[t].deck.cards) - SetupCards
        /\ game.turn = PLAYER_ONE
        /\ game.turn_count = 0
        /\ Len(game.snapshots) = 1
        /\ game.snapshots[1].description = "Setup complete"

\* C6 witness: setup succeeded on a controller that had been stepped before:
\* player two's turn, a non-zero turn counter, a card in hand and a snapshot
C6_Witness ==
    /\ SetupReturned
    /\ call.pre.turn = PLAYER_TWO
    /\ call.pre.turn_count > 0
    /\ call.pre.players[PLAYER_ONE].hand # <<>>
    /\ call.pre.snapshots # <<>>

\* the last call was a play() that is now in its loop, no step made yet
PlayInLoop == pc = "loop" /\ call.op = "setup" /\ steps = 0

\* the last call was a play() that raised in its setup
PlayFailedInSetup == call.op = "play" /\ call.raised # NoError /\ steps = 0

\* a deck, as shuffled, that setup cannot start from: fewer than 13 cards, or no
\* Pokemon card among the first 7
BadOpening(cards) ==
    \/ Len(cards) < SetupCards
    \/ \A i \in 1..OpeningHandSize : ~isPokemonCard(cards[i])

\* the decks of controller g as setup's two shuffles will leave them
ShuffledDecks(g) ==
    LET one == shuffle(g.random, g.players[PLAYER_ONE].deck.cards)
        two == shuffle(one.random, g.players[PLAYER_TWO].deck.cards)
    IN <<one.cards, two.cards>>

\* C7: when, as shuffled, either deck has fewer than 13 cards or no Pokemon card
\* among its first 7, the setup inside play raises: play ends with that
\* exception and no GameResult, no step is made (the turn counter stays 0) and
\* neither the "Setup complete" snapshot nor the "Game setup complete." line
\* appears.
C7_FailedSetupAbortsPlay ==
    ((PlayInLoop \/ PlayFailedInSetup)
        /\ \E k \in 1..2 : BadOpening(ShuffledDecks(call.pre)[k]))
    =>  /\ PlayFailedInSetup
        /\ pc = "idle"
        /\ call.ret = NoResult
        /\ Last(runs).raised = call.raised
        /\ Last(runs).result = NoResult
        /\ game.turn_count = 0
        /\ \A i \in 1..Len(game.snapshots) :
                game.snapshots[i].description # "Setup complete"
        /\ ~Logged(game.log, SetupCompleteLine)

\* C7 witness: play raised because player two's shuffled 14-card deck had its two
\* Pokemon cards below the first 7, after player one had been set up
C7_Witness ==
    /\ PlayFailedInSetup
    /\ call.raised = ErrNoStart("Player 2")
    /\ Len(built.deck_two) > SetupCards
    /\ Shuffled(built.deck_two)
    /\ game.players[PLAYER_ONE].active_pokemon # None
    /\ Len(game.players[PLAYER_TWO].hand) = OpeningHandSize

\* C8 as claimed: the last snapshot of every match play has run is captioned
\* "Game end" and carries the player who would act next, the controller's turn
\* when the loop was left (call.pre is the controller at that moment).
C8_Claimed ==
    PlayReturned =>
        /\ Last(call.ret.snapshots).description = "Game end"
        /\ Last(call.ret.snapshots).active_turn = call.pre.turn

\* C8, amended: the last snapshot of every match play has run is captioned
\* "Game end" and carries the opponent of the controller's turn when the loop
\* was left: not the player who would act next but the other one.
C8_GameEndSnapshot ==
    PlayReturned =>
        /\ Last(call.ret.snapshots).description = "Game end"
        /\ Last(call.ret.snapshots).active_turn = opposite(call.pre.turn)
        /\ call.ret.snapshots = game.snapshots

\* C8 witness: a match of several steps ended by the victory check; player two
\* would act next and the "Game end" snapshot carries player one
C8_Witness ==
    /\ PlayReturned
    /\ steps > 1
    /\ call.ret.winner = PLAYER_ONE
    /\ game.turn = PLAYER_TWO
    /\ Last(call.ret.snapshots).active_turn = PLAYER_ONE
    /\ Len(game.players[PLAYER_ONE].deck.cards) > 0

\* the components of a controller a clone carries over
Carried(g) ==
    [turn |-> g.turn, turn_count |-> g.turn_count, log |-> g.log,
     players |-> [t \in Turns |->
        [deck |-> g.players[t].deck.cards, hand |-> g.players[t].hand,
         discard_pile |-> g.players[t].discard_pile, prizes |-> g.players[t].prizes,
         active_pokemon |-> g.players[t].active_pokemon,
         active_hp |-> g.players[t].active_hp]]]

\* C9: the controller clone returns has the original's turn, turn counter, log
\* and, for each player, deck order, hand, discard pile, prize pile, active
\* creature and active_hp, and clone leaves the original as it was; afterwards
\* a step on the clone leaves the original unchanged and a step on the original
\* leaves the clone unchanged.
C9_CloneIndependent ==
    /\ [](call.op = "clone" =>
            /\ clones # <<>>
            /\ Carried(clones[1]) = Carried(call.pre)
            /\ game = call.pre)
    /\ [][/\ call'.op = "clone.step" => game' = game
          /\ (call'.op = "step" /\ clones # <<>>) => clones' = clones]_vars

\* C9 witness: the clone has taken two steps more than its original, which was
\* itself stepped before the clone was made, and their hands and logs differ
C9_Witness ==
    /\ call.op = "clone.step"
    /\ call.raised = NoError
    /\ game.turn_count > 0
    /\ clones[1].turn_count >= game.turn_count + 2
    /\ clones[1].players[PLAYER_ONE].hand # game.players[PLAYER_ONE].hand
    /\ clones[1].players[PLAYER_TWO].hand # game.players[PLAYER_TWO].hand
    /\ Len(clones[1].log) > Len(game.log)

\* a draw of n cards from a deck that holds at least n
DrewInRange(op) ==
    /\ call.op = op
    /\ 0 <= call.arg
    /\ call.arg <= Len(call.pre.deck.cards)

\* C10: for every deck D and every n with 0 <= n <= |D|, Deck.draw(n) returns
\* the first n cards of D in their order and leaves the other |D| - n cards
\* in their order; Player.draw(n) moreover appends the drawn cards, in that
\* order, to the end of the hand (and returns them).
C10_DrawTakesTheTop ==
    (DrewInRange("Deck.draw") \/ DrewInRange("Player.draw")) =>
        LET D == call.pre.deck.cards
            n == call.arg
            left == a_player.deck.cards
        IN  /\ call.raised = NoError
            /\ Len(call.ret) = n
            /\ \A i \in 1..n : call.ret[i] = D[i]
            /\ Len(left) = Len(D) - n
            /\ \A i \in 1..Len(left) : left[i] = D[n + i]
            /\ call.op = "Deck.draw" => a_player = [call.pre EXCEPT !.deck = Deck(left)]
            /\ call.op = "Player.draw" =>
                /\ Len(a_player.hand) = Len(call.pre.hand) + n
                /\ \A i \in 1..Len(call.pre.hand) : a_player.hand[i] = call.pre.hand[i]
                /\ \A i \in 1..n : a_player.hand[Len(call.pre.hand) + i] = D[i]
                /\ a_player = [call.pre EXCEPT !.deck = Deck(left), !.hand = a_player.hand]

\* C10 witness: Player.draw(2) from a deck of three different cards into a
\* hand that held a card
C10_Witness ==
    /\ DrewInRange("Player.draw")
    /\ call.arg = 2
    /\ Len(call.pre.deck.cards) = 3
    /\ call.pre.deck.cards[1] # call.pre.deck.cards[2]
    /\ call.pre.deck.cards[2] # call.pre.deck.cards[3]
    /\ call.pre.deck.cards[1] # call.pre.deck.cards[3]
    /\ call.pre.hand # <<>>
    /\ Len(a_player.deck.cards) = 1

\* a draw, through any of the three callers of Deck.draw
Drew == call.op \in {"Deck.draw", "Player.draw", "Player.setup_prizes"}

\* C11: a draw of n cards with n < 0 or n > |D| fails, with the
\* invalid-argument error resp. the insufficient-cards error, and leaves the
\* deck unchanged; through Player.draw and Player.setup_prizes it also leaves
\* the hand and the prize pile (the whole player) unchanged.
C11_FailedDrawChangesNothing ==
    (Drew /\ (call.arg < 0 \/ call.arg > Len(call.pre.deck.cards))) =>
        /\ call.raised = (IF call.arg < 0 THEN ErrNegative ELSE ErrDeck)
        /\ call.ret \in {<<>>, NoneStr}
        /\ a_player.deck = call.pre.deck
        /\ a_player.hand = call.pre.hand
        /\ a_player.prizes = call.pre.prizes
        /\ a_player = call.pre

\* C11 witness: setup_prizes asks for one card more than the deck holds, of a
\* player that has a hand and a prize pile
C11_Witness ==
    /\ call.op = "Player.setup_prizes"
    /\ call.arg = Len(call.pre.deck.cards) + 1
    /\ call.arg > 1
    /\ call.raised = ErrDeck
    /\ call.pre.hand # <<>>
    /\ call.pre.prizes # <<>>

\* C12: setup_prizes(6) on a player whose deck holds at least 7 cards, whatever
\* the prize pile was, leaves a prize pile of exactly 6 cards, the former top
\* 6 of the deck in order, and a deck 6 cards shorter, the other cards in
\* their order; nothing else of the player changes.
C12_SetupPrizesTakesSix ==
    (/\ call.op = "Player.setup_prizes"
     /\ call.arg = DefaultPrizeCount
     /\ Len(call.pre.deck.cards) >= DefaultPrizeCount + 1) =>
        LET D == call.pre.deck.cards
            left == a_player.deck.cards
        IN  /\ call.raised = NoError
            /\ Len(a_player.prizes) = DefaultPrizeCount
            /\ \A i \in 1..DefaultPrizeCount : a_player.prizes[i] = D[i]
            /\ Len(left) = Len(D) - DefaultPrizeCount
            /\ \A i \in 1..Len(left) : left[i] = D[DefaultPrizeCount + i]
            /\ a_player = [call.pre EXCEPT !.deck = Deck(left), !.prizes = a_player.prizes]

\* C12 witness: setup_prizes(6) on a deck of 7 cards left by an earlier
\* setup_prizes that made a prize pile of other cards
C12_Witness ==
    /\ call.op = "Player.setup_prizes"
    /\ call.arg = DefaultPrizeCount
    /\ Len(call.pre.deck.cards) = DefaultPrizeCount + 1
    /\ call.pre.prizes # <<>>
    /\ call.pre.prizes[1] # a_player.prizes[1]
    /\ Len(a_player.deck.cards) = 1

\* the hand holds a Pokemon card at idx and none before it
FirstPokemonAt(hand, idx) ==
    /\ idx \in 1..Len(hand)
    /\ isPokemonCard(hand[idx])
    /\ \A j \in 1..(idx - 1) : ~isPokemonCard(hand[j])

\* C13: promote_from_hand on a hand without a Pokemon card returns false and
\* changes nothing (so calling it again changes nothing either); otherwise it
\* returns true, takes exactly the first Pokemon card out of the hand, the
\* other cards keeping their order, makes it the active card and sets
\* active_hp to its printed hit points.
C13_PromoteFirstPokemon ==
    call.op = "Player.promote_from_hand" =>
        LET before == call.pre.hand
            after == a_player.hand
        IN  IF \A i \in 1..Len(before) : ~isPokemonCard(before[i])
            THEN /\ call.ret = FALSE
                 /\ a_player = call.pre
            ELSE /\ call.ret = TRUE
                 /\ \E idx \in 1..Len(before) :
                        /\ FirstPokemonAt(before, idx)
                        /\ Len(after) = Len(before) - 1
                        /\ \A i \in 1..(idx - 1) : after[i] = before[i]
                        /\ \A i \in idx..Len(after) : after[i] = before[i + 1]
                        /\ a_player.active_pokemon = before[idx]
                        /\ a_player.active_hp = before[idx].hp
                 /\ a_player = [call.pre EXCEPT !.hand = after,
                                   !.active_pokemon = a_player.active_pokemon,
                                   !.active_hp = a_player.active_hp]

\* C13 witness: the hand was Energy, Wall, Raichu; Wall was promoted and
\* Energy, Raichu stay in the hand
C13_Witness ==
    /\ call.op = "Player.promote_from_hand"
    /\ call.pre.hand = <<Energy, Wall, Raichu>>
    /\ call.ret = TRUE
    /\ a_player.hand = <<Energy, Raichu>>
    /\ a_player.active_pokemon = Wall

\* C13 witness of the other case: promote_from_hand called a second time on a
\* hand without a Pokemon card
C13_WitnessNoPokemon ==
    /\ call.op = "Player.promote_from_hand"
    /\ call.pre.hand = <<Energy, Energy>>
    /\ call.ret = FALSE
    /\ a_player.active_pokemon = None

\* C14: damage_active(amount), amount >= 0, on a player with an active card
\* sets active_hp to max(active_hp - amount, 0), never below 0, changes nothing
\* else and returns true exactly when the new active_hp is 0; on a player
\* without an active card it raises the no-active error and changes nothing.
C14_DamageFloorsAtZero ==
    (call.op = "Player.damage_active" /\ call.arg >= 0) =>
        IF call.pre.active_pokemon # None
        THEN /\ call.raised = NoError
             /\ a_player.active_hp = Max(call.pre.active_hp - call.arg, 0)
             /\ a_player.active_hp >= 0
             /\ call.ret = (a_player.active_hp = 0)
             /\ a_player = [call.pre EXCEPT !.active_hp = a_player.active_hp]
        ELSE /\ call.raised = ErrNoActive
             /\ a_player = call.pre

\* C14 witness: a damage equal to the hit points left knocks the card out
C14_Witness ==
    /\ call.op = "Player.damage_active"
    /\ call.pre.active_pokemon = Wall
    /\ call.arg = call.pre.active_hp
    /\ call.arg > 0
    /\ call.ret = TRUE
    /\ a_player.active_hp = 0

\* the card ids from first to last, ascending
IdsFromTo(first, last) == [i \in 1..(last - first + 1) |-> first + i - 1]

\* the lookup of card_id by client c on the web: what fetch ends in
Lookup(c, web, card_id) == fetch(c, web, card_id).raised

FetchedRange == call.op = "fetch_range" /\ call.arg[1] <= call.arg[2]

\* the ids of the cards returned
ReturnedIds == [i \in 1..Len(call.ret) |-> call.ret[i].card_id]

\* C15 as claimed: fetch_range(start, end) returns exactly the cards of the
\* half-open range [start, end) whose lookup succeeded, in ascending order,
\* and skips every id whose lookup failed.
C15_Claimed ==
    FetchedRange =>
        LET Succeeded(id) == Lookup(call.pre.client, call.pre.web, id) = NoError IN
        /\ call.raised = NoError
        /\ ReturnedIds = SelectSeq(IdsFromTo(call.arg[1], call.arg[2] - 1), Succeeded)

\* C15, amended: fetch_range(start, end) with start <= end looks up the closed
\* range start..end, end included.  When no lookup in it ends in an exception
\* other than URLError and ValueError, it returns exactly the cards of the ids
\* whose lookup succeeded, in ascending order, skipping the others; otherwise
\* it raises the first such exception and returns nothing.  With end < start
\* it raises ValueError.
C15_FetchRangeClosed ==
    call.op = "fetch_range" =>
        LET start == call.arg[1]
            end == call.arg[2]
            Result(id) == Lookup(call.pre.client, call.pre.web, id)
            Succeeded(id) == Result(id) = NoError
            fatal == {id \in start..end : Result(id) \notin SkippedErrors \cup {NoError}}
        IN  IF end < start
                THEN call.raised = ErrEndBeforeStart /\ client = call.pre.client
            ELSE IF fatal # {}
                THEN /\ call.raised = Result(CHOOSE id \in fatal : \A other \in fatal : id <= other)
                     /\ call.ret = NoneStr
            ELSE /\ call.raised = NoError
                 /\ ReturnedIds = SelectSeq(IdsFromTo(start, end), Succeeded)
                 /\ \A i \in 1..Len(call.ret) :
                        call.ret[i] = fetch(call.pre.client, call.pre.web, call.ret[i].card_id).ret

\* C15 witness: the test's fetch_range(100, 102) with 100 and 102 found and
\* 101 not: the cards 100 and 102 are returned, 102 being `end`
C15_Witness ==
    /\ FetchedRange
    /\ call.arg = <<TestFirstId, TestFirstId + 2>>
    /\ call.pre.client = PokemonCardClient
    /\ call.pre.web[TestFirstId] = Page(HtmlOk)
    /\ call.pre.web[TestFirstId + 1] = Raises(ErrNotFound)
    /\ call.pre.web[TestFirstId + 2] = Page(HtmlOk)
    /\ call.raised = NoError
    /\ ReturnedIds = <<TestFirstId, TestFirstId + 2>>

\* the player has no active card and no Pokemon card in hand
Stuck(player) == player.active_pokemon = None /\ ~has_pokemon_in_hand(player)

\* the prize-first reading of the victory check: the first player, in the
\* order (player one, player two), whose prize pile is empty; if there is
\* none, the opponent of the first player who is stuck; if there is none, None
PrizeFirst(g) ==
    LET emptied == {i \in 1..Len(Turn) : g.players[Turn[i]].prizes = <<>>}
        stuck == {i \in 1..Len(Turn) : Stuck(g.players[Turn[i]])}
        First(S) == CHOOSE i \in S : \A j \in S : i <= j
    IN  IF emptied # {} THEN Turn[First(emptied)]
        ELSE IF stuck # {} THEN opposite(Turn[First(stuck)])
        ELSE NoneStr

\* C16: for every two players' states the victory check returns what the
\* prize-first reading gives, although the code tests prizes and stuckness
\* player by player; it changes nothing.
C16_VictoryIsPrizeFirst ==
    call.op = "_check_victory" =>
        /\ call.ret = PrizeFirst(call.pre)
        /\ game = call.pre

\* C16 witness: player one is stuck with prizes left and player two has taken
\* all its prizes; the code names player two as player one's opponent, the
\* reading as the player without prizes
C16_Witness ==
    /\ call.op = "_check_victory"
    /\ Stuck(call.pre.players[PLAYER_ONE])
    /\ call.pre.players[PLAYER_ONE].prizes # <<>>
    /\ call.pre.players[PLAYER_TWO].prizes = <<>>
    /\ ~Stuck(call.pre.players[PLAYER_TWO])
    /\ call.ret = PLAYER_TWO

\* the last call was a step() in which the acting player drew a card and had
\* an active card with an attack
AttackStep ==
    /\ IsStep
    /\ Len(Acting.deck.cards) > 0
    /\ Acting.active_pokemon # None
    /\ Acting.active_pokemon.attacks # <<>>

\* the player opposite the one whose turn it was when the last call began
Defending == call.pre.players[opposite(call.pre.turn)]

\* C17: in a step where the acting player's active card has an attack, only
\* its first attack is used.  If it brings the defender's active_hp to 0, the
\* defender's active card goes to the end of its discard pile, the first card
\* of the attacker's prize pile (if any) goes to the end of the attacker's
\* hand, after the card drawn, and the defender's first Pokemon card in hand
\* (if any) becomes its active card at its printed hit points, else it has no
\* active card; the log tells it in this order.  If it does not knock out,
\* active_hp is the defender's only change.  (A defender without an active card
\* makes the step raise, unchanged.)
C17_FirstAttackAndKnockOut ==
    AttackStep =>
        LET attack == Acting.active_pokemon.attacks[1]
            after == game.players[call.pre.turn]
            defender == game.players[opposite(call.pre.turn)]
            drew == [Acting EXCEPT !.deck = Deck(Tail(Acting.deck.cards)),
                                   !.hand = Append(@, Head(Acting.deck.cards))]
            added == SubSeq(game.log, Len(call.pre.log) + 1, Len(game.log))
            told == SubSeq(added, 4, Len(added))
        IN
        /\ Len(added) >= 3
        /\ added[3] = UsesLine(Acting, Acting.active_pokemon, attack)
        /\ IF Defending.active_pokemon = None
           THEN call.raised = ErrNoActive /\ defender = Defending /\ after = drew
           ELSE IF Defending.active_hp - attack.damage > 0
           THEN /\ call.raised = NoError
                /\ defender = [Defending EXCEPT !.active_hp = @ - attack.damage]
                /\ after = drew
                /\ told = <<>>
           ELSE /\ call.raised = NoError
                /\ defender.discard_pile =
                        Append(Defending.discard_pile, Defending.active_pokemon)
                /\ after = [drew EXCEPT
                                !.hand = IF Acting.prizes = <<>> THEN @
                                         ELSE Append(@, Head(Acting.prizes)),
                                !.prizes = IF Acting.prizes = <<>> THEN @ ELSE Tail(@)]
                /\ IF has_pokemon_in_hand(Defending)
                   THEN \E idx \in 1..Len(Defending.hand) :
                            /\ FirstPokemonAt(Defending.hand, idx)
                            /\ defender = [Defending EXCEPT
                                    !.discard_pile = defender.discard_pile,
                                    !.hand = DelAt(@, idx),
                                    !.active_pokemon = Defending.hand[idx],
                                    !.active_hp = Defending.hand[idx].hp]
                   ELSE defender = [Defending EXCEPT
                                    !.discard_pile = defender.discard_pile,
                                    !.active_pokemon = None,
                                    !.active_hp = 0]
                /\ told = <<KnockedOutLine(Defending)>>
                        \o (IF Acting.prizes # <<>>
                                THEN <<TakesPrizeLine(Acting, Head(Acting.prizes))>> ELSE <<>>)
                        \o (IF Len(Acting.prizes) <= 1
                                THEN <<FinalPrizeLine(Acting)>> ELSE <<>>)
                        \o (IF ~has_pokemon_in_hand(Defending)
                                THEN <<NoReplacementLine(Defending)>> ELSE <<>>)

\* C17 witness: a card with two attacks knocks out with its first attack a
\* card its second attack would have knocked out a step earlier; a prize is
\* taken and the defender promotes a card from its hand
C17_Witness ==
    /\ AttackStep
    /\ Len(Acting.active_pokemon.attacks) = 2
    /\ Defending.active_pokemon # None
    /\ Defending.active_hp < Defending.active_pokemon.hp
    /\ Defending.active_hp <= Acting.active_pokemon.attacks[1].damage
    /\ Acting.prizes # <<>>
    /\ Len(game.players[call.pre.turn].prizes) = Len(Acting.prizes) - 1
    /\ has_pokemon_in_hand(Defending)
    /\ game.players[opposite(call.pre.turn)].active_hp
            = game.players[opposite(call.pre.turn)].active_pokemon.hp

\* play has just made a step, which returned
StepInPlay == pc = "loop" /\ call.op = "step"

\* the log lines the last call added
Added == SubSeq(game.log, Len(call.pre.log) + 1, Len(game.log))

\* the last step logged that the attacker took the final prize, or that the
\* defender has no replacement
WinLogged ==
    \/ Logged(Added, FinalPrizeLine(Acting))
    \/ Logged(Added, NoReplacementLine(Defending))

\* C18: in a match run by play, a step that logs "takes the final prize and
\* wins!" or "has no replacement Pokemon and loses!" returns the attacker, the
\* acting player, as winner: the victory check of the same step names it, and
\* play's loop holds it as winner.
C18_LoggedWinIsReturned ==
    (StepInPlay /\ WinLogged) =>
        /\ call.ret = call.pre.turn
        /\ winner = call.pre.turn
        /\ _check_victory(game) = call.pre.turn

\* C18 witness: player one knocks out player two's only Pokemon card and
\* takes its first prize: no final prize, and a win by no replacement
C18_Witness ==
    /\ StepInPlay
    /\ call.pre.turn = PLAYER_ONE
    /\ Last(game.log) = NoReplacementLine(Defending)
    /\ ~Logged(Added, FinalPrizeLine(Acting))
    /\ Len(game.players[PLAYER_ONE].prizes) = DefaultPrizeCount - 1
    /\ game.players[PLAYER_TWO].prizes # <<>>
    /\ winner = PLAYER_ONE

\* C18 witness of the other line: player two takes its final prize; the
\* victory check meets player one first, who has prizes left
C18_WitnessFinalPrize ==
    /\ StepInPlay
    /\ call.pre.turn = PLAYER_TWO
    /\ Logged(Added, FinalPrizeLine(Acting))
    /\ game.players[PLAYER_ONE].prizes # <<>>
    /\ winner = PLAYER_TWO

\* the snapshots the last call added
AddedSnapshots ==
    SubSeq(game.snapshots, Len(call.pre.snapshots) + 1, Len(game.snapshots))

\* the last call added exactly one snapshot, "After turn N" for the new turn
\* counter N, tagged with the player who acted, and flipped the active player
SnapshotAndFlip ==
    /\ SubSeq(game.snapshots, 1, Len(call.pre.snapshots)) = call.pre.snapshots
    /\ Len(AddedSnapshots) = 1
    /\ AddedSnapshots[1].description = AfterTurn(call.pre.turn_count + 1)
    /\ AddedSnapshots[1].active_turn = call.pre.turn
    /\ AddedSnapshots[1].turn_count = call.pre.turn_count + 1
    /\ game.turn = opposite(call.pre.turn)

\* C19 as claimed: every step increments the turn counter by 1; every step
\* that does not end in deck-out records exactly one snapshot "After turn N",
\* tagged with the player who acted, and flips the active player; a deck-out
\* step leaves the active player unchanged.
C19_Claimed ==
    IsStep =>
        /\ game.turn_count = call.pre.turn_count + 1
        /\ IF DeckOutStep THEN game.turn = call.pre.turn ELSE SnapshotAndFlip

\* C19, amended: every step, also one that raises, increments the turn counter
\* by 1.  Every step that returns without deck-out records exactly one
\* snapshot "After turn N", tagged with the player who acted, and flips the
\* active player, whether or not it returns a winner.  A deck-out step leaves
\* the active player unchanged.  A step that raises (the attack meets a
\* defender without an active card) records no snapshot and leaves the active
\* player unchanged.
C19_StepCountsSnapshotsFlips ==
    IsStep =>
        /\ game.turn_count = call.pre.turn_count + 1
        /\ IF DeckOutStep THEN call.raised = NoError /\ game.turn = call.pre.turn
           ELSE IF call.raised = NoError THEN SnapshotAndFlip
           ELSE /\ call.raised = ErrNoActive
                /\ Defending.active_pokemon = None
                /\ game.snapshots = call.pre.snapshots
                /\ game.turn = call.pre.turn

\* C19 witness: after a successful setup a step that found a winner without
\* deck-out has recorded its snapshot and flipped the active player
C19_Witness ==
    /\ IsStep
    /\ ready
    /\ ~DeckOutStep
    /\ call.raised = NoError
    /\ call.ret # NoneStr
    /\ game.turn = opposite(call.pre.turn)
    /\ Last(game.snapshots).description = AfterTurn(game.turn_count)

\* C19 witness of a step that raises
C19_WitnessRaised ==
    /\ IsStep
    /\ call.raised = ErrNoActive
    /\ game.turn_count = call.pre.turn_count + 1
    /\ game.turn = call.pre.turn

\* seq is the beginning of longer: every element of seq is in longer, at the
\* same position
IsPrefix(seq, longer) ==
    /\ Len(seq) <= Len(longer)
    /\ \A i \in 1..Len(seq) : longer[i] = seq[i]

\* C20 as claimed: across setup, step and play calls the log and the snapshot
\* sequence are append-only: what was recorded is still there, at the same
\* position and with the same content, after any later operation.
C20_Claimed ==
    [][IsPrefix(game.log, game'.log) /\ IsPrefix(game.snapshots, game'.snapshots)]_vars

\* C20, amended: across setup, step and play calls the log is append-only; the
\* snapshot sequence is append-only except that a setup which succeeds (one
\* called by the caller or the one play begins with) clears it and leaves
\* exactly the "Setup complete" snapshot.  A setup that fails leaves the
\* snapshots as they were.
C20_AppendOnlyBetweenSetups ==
    [][/\ IsPrefix(game.log, game'.log)
       /\ IF call'.op = "setup" /\ call'.raised = NoError
          THEN /\ Len(game'.snapshots) = 1
               /\ game'.snapshots[1].description = "Setup complete"
          ELSE IsPrefix(game.snapshots, game'.snapshots)]_vars

\* C20 witness: a second setup, after a whole match run by play: the log of
\* the match is kept and goes on, its snapshots are gone
C20_Witness ==
    /\ call.op = "setup"
    /\ call.raised = NoError
    /\ setups = 2
    /\ Len(call.pre.snapshots) > 2
    /\ Last(call.pre.snapshots).description = "Game end"
    /\ Len(game.snapshots) = 1
    /\ IsPrefix(call.pre.log, game.log)
    /\ Len(game.log) > Len(call.pre.log)

\* the cards a player has on the board, pile after pile
Zones(player) ==
    player.deck.cards \o player.hand \o player.prizes \o player.discard_pile
        \o (IF player.active_pokemon # None THEN <<player.active_pokemon>> ELSE <<>>)

\* the multiset of the cards of a list
BagOf(seq) ==
    [card \in {seq[i] : i \in DOMAIN seq} |->
        Cardinality({i \in DOMAIN seq : seq[i] = card})]

\* C21: card conservation.  A setup that succeeds leaves each player with the
\* cards its deck held when the setup began, as many and the same multiset,
\* spread over deck, hand, prize pile, discard pile and active spot; and every
\* step after a successful setup leaves each player's count and multiset as
\* they were, so that no card changes sides, is duplicated or is lost.
C21_CardConservation ==
    \A t \in Turns :
        LET now == Zones(game.players[t]) IN
        /\ SetupReturned =>
                /\ Len(now) = Len(call.pre.players[t].deck.cards)
                /\ BagOf(now) = BagOf(call.pre.players[t].deck.cards)
        /\ (ready /\ IsStep) =>
                /\ Len(now) = Len(Zones(call.pre.players[t]))
                /\ BagOf(now) = BagOf(Zones(call.pre.players[t]))

\* C21 witness: after a second successful setup, made on a board with cards in
\* every pile, a step in which the defender's active card went to the discard
\* pile, the attacker took a prize into its hand and the defender promoted
C21_Witness ==
    /\ ready
    /\ IsStep
    /\ setups = 2
    /\ LET attacker == game.players[call.pre.turn]
           defender == game.players[opposite(call.pre.turn)]
           before == call.pre.players
       IN /\ Len(defender.discard_pile) = Len(before[opposite(call.pre.turn)].discard_pile) + 1
          /\ Len(attacker.prizes) = Len(before[call.pre.turn].prizes) - 1
          /\ Len(attacker.deck.cards) = Len(before[call.pre.turn].deck.cards) - 1
          /\ defender.active_pokemon # None
          /\ \E i, j \in DOMAIN Zones(attacker) : Zones(attacker)[i] # Zones(attacker)[j]

\* both players of controller g have an active card and a prize to take
FullBoard(g) ==
    \A t \in Turns :
        /\ g.players[t].active_pokemon # None
        /\ g.players[t].prizes # <<>>

\* play is at the head of its loop and will make a step
StepBegins == pc = "loop" /\ winner = NoneStr /\ game.turn_count < max_turns

\* the attack of the last step called damage_active on a defender without an
\* active card: the attacker, after its draw, has an active card with an attack
DamagedNoActive ==
    /\ Len(Acting.deck.cards) > 0
    /\ Acting.active_pokemon # None
    /\ Acting.active_pokemon.attacks # <<>>
    /\ call.pre.players[opposite(call.pre.turn)].active_pokemon = None

\* C22: in a match run by play, every step begins with an active card and a
\* non-empty prize pile on both sides; so no step of play logs "has no active
\* Pokemon and loses the turn", none calls damage_active on a player without an
\* active card, and play never raises out of a step.
C22_StepsBeginOnFullBoard ==
    /\ StepBegins => FullBoard(game)
    /\ (call.op = "step" \/ (call.op = "play" /\ call.raised # NoError /\ steps > 0)) =>
            /\ FullBoard(call.pre)
            /\ ~Logged(Added, NoActiveLine(Acting))
            /\ ~DamagedNoActive
            /\ call.raised = NoError

\* C22 witness: a step of play begins after a step in which the defender's
\* active card was knocked out, a prize was taken and a replacement promoted
C22_Witness ==
    /\ StepBegins
    /\ StepInPlay
    /\ Logged(Added, KnockedOutLine(call.pre.players[opposite(call.pre.turn)]))
    /\ Len(game.players[call.pre.turn].prizes) < DefaultPrizeCount
    /\ FullBoard(game)

\* in the last step the acting player took the last card of its prize pile
EmptiedPrizes ==
    /\ Acting.prizes # <<>>
    /\ game.players[call.pre.turn].prizes = <<>>

\* in the last step the defender's active card was knocked out and discarded,
\* and no Pokemon card of its hand took its place
KnockedOutNoPromotion ==
    LET before == call.pre.players[opposite(call.pre.turn)]
        after == game.players[opposite(call.pre.turn)]
    IN  /\ before.active_pokemon # None
        /\ after.active_pokemon = None
        /\ after.discard_pile = Append(before.discard_pile, before.active_pokemon)
        /\ ~has_pokemon_in_hand(after)

\* C23: in a match run by play, a step that does not end in deck-out returns a
\* winner only if in it the acting player emptied its own prize pile or the
\* defender was knocked out and could not promote, and that winner is the
\* acting player; a deck-out step returns the non-acting player.  No step
\* returns the player whose turn it was not, except by deck-out.
C23_WinnerIsActingPlayer ==
    StepInPlay =>
        /\ DeckOutStep => call.ret = opposite(call.pre.turn)
        /\ (~DeckOutStep /\ call.ret # NoneStr) =>
                /\ call.ret = call.pre.turn
                /\ EmptiedPrizes \/ KnockedOutNoPromotion
        /\ call.ret = opposite(call.pre.turn) => DeckOutStep

\* C23 witness: player one takes its final prize from a defender that
\* promotes a replacement, and is returned as winner
C23_Witness ==
    /\ StepInPlay
    /\ ~DeckOutStep
    /\ call.pre.turn = PLAYER_ONE
    /\ call.ret = PLAYER_ONE
    /\ EmptiedPrizes
    /\ ~KnockedOutNoPromotion
    /\ game.players[PLAYER_TWO].active_pokemon # None

\* C23 witness of the other cause: the defender could not promote, and the
\* acting player, with prizes left, is returned
C23_WitnessNoPromotion ==
    /\ StepInPlay
    /\ ~DeckOutStep
    /\ call.ret = call.pre.turn
    /\ KnockedOutNoPromotion
    /\ ~EmptiedPrizes

\* C23 witness of deck-out: a step of play made on an empty deck returned the
\* player who did not act
C23_WitnessDeckOut ==
    /\ StepInPlay
    /\ DeckOutStep
    /\ call.ret = opposite(call.pre.turn)
    /\ _check_victory(game) = NoneStr

Min(a, b) == IF a <= b THEN a ELSE b

\* the step in which the first deck runs out: player one draws in the steps 1,
\* 3, ..., player two in the steps 2, 4, ..., from decks that setup left with
\* 13 cards fewer than the N1 and N2 they were built with
StepBound ==
    Min(2 * (Len(built.deck_one) - SetupCards) + 1,
        2 * (Len(built.deck_two) - SetupCards) + 2)

\* play has passed its setup: it is in its loop, or has returned
PassedSetup == pc = "loop" \/ PlayReturned

\* the deck of player t in controller g
DeckSize(g, t) == Len(g.players[t].deck.cards)

\* C24: play terminates, whatever max_turns is; a match that passed setup
\* with decks of N1 and N2 cards makes no step beyond step
\* min(2*(N1-13)+1, 2*(N2-13)+2) and has a winner once it made that one; each
\* step that is no deck-out takes exactly one card from the acting player's
\* deck, a deck-out step none, and no deck ever grows during a match.
C24_PlayTerminates ==
    /\ (pc = "loop") ~> (pc = "idle")
    /\ [](PassedSetup =>
            /\ steps = game.turn_count
            /\ steps <= StepBound
            /\ steps = StepBound => winner # NoneStr)
    /\ [](StepInPlay =>
            /\ DeckSize(game, call.pre.turn)
                    = DeckSize(call.pre, call.pre.turn) - (IF DeckOutStep THEN 0 ELSE 1)
            /\ DeckSize(game, opposite(call.pre.turn))
                    = DeckSize(call.pre, opposite(call.pre.turn)))
    /\ [][pc = "loop" => \A t \in Turns : DeckSize(game', t) <= DeckSize(game, t)]_vars

\* C24 witness: a match with max_turns to spare was decided by deck-out in
\* the very step of the bound, after draws of both players
C24_Witness ==
    /\ PlayReturned
    /\ steps = StepBound
    /\ steps > 2
    /\ steps < max_turns
    /\ Last(call.ret.snapshots).description = "Game end"
    /\ \E i \in DOMAIN call.ret.snapshots : call.ret.snapshots[i].description = "Deck out"
    /\ call.ret.winner = PLAYER_TWO
    /\ DeckSize(game, PLAYER_ONE) = 0

\* the last step brought the defender's active_hp to 0: the log says so
KnockedOut == IsStep /\ Logged(Added, KnockedOutLine(Defending))

\* C25: after a successful setup and after every step that follows, a player
\* with an active card has active_hp >= 1 and a player without one has
\* active_hp = 0; a card knocked out in a step is in the discard pile when the
\* step ends, and the card active in its place, if any, is at its printed hit
\* points; every snapshot reports active_hp = 0 exactly when it reports no
\* active card.  (All cards have positive printed hit points.)
C25_ActiveHpPositive ==
    /\ ready =>
            \A t \in Turns :
                LET player == game.players[t] IN
                IF player.active_pokemon # None
                    THEN player.active_hp >= 1
                    ELSE player.active_hp = 0
    /\ (ready /\ KnockedOut) =>
            LET defender == game.players[opposite(call.pre.turn)] IN
            /\ defender.discard_pile
                    = Append(Defending.discard_pile, Defending.active_pokemon)
            /\ defender.active_pokemon # None =>
                    defender.active_hp = defender.active_pokemon.hp
    /\ \A i \in DOMAIN game.snapshots : \A t \in Turns :
            LET shot == game.snapshots[i].players[t] IN
            shot.active_hp = 0 <=> shot.active_name = NoneStr

\* C25 witness: a knock-out after which the defender has no active card: its
\* active_hp is 0, and the step's snapshot reports no active card at 0 hit
\* points for it and an active card above 0 for the attacker
C25_Witness ==
    /\ ready
    /\ KnockedOut
    /\ call.raised = NoError
    /\ game.players[opposite(call.pre.turn)].active_pokemon = None
    /\ game.players[opposite(call.pre.turn)].active_hp = 0
    /\ Last(game.snapshots).players[opposite(call.pre.turn)].active_name = NoneStr
    /\ Last(game.snapshots).players[opposite(call.pre.turn)].active_hp = 0
    /\ Last(game.snapshots).players[call.pre.turn].active_hp >= 1

\* C25 witness of the replacement: a damaged card was knocked out and the
\* card promoted in its place is at its printed hit points
C25_WitnessReplaced ==
    /\ ready
    /\ KnockedOut
    /\ Defending.active_hp < Defending.active_pokemon.hp
    /\ game.players[opposite(call.pre.turn)].active_pokemon # None
    /\ game.players[opposite(call.pre.turn)].active_hp
            = game.players[opposite(call.pre.turn)].active_pokemon.hp

\* controllers a and b have the same turn, turn counter and, player by player,
\* deck order, hand, discard pile, prize pile, active card and active_hp
SameBoard(a, b) ==
    /\ Carried(a).turn = Carried(b).turn
    /\ Carried(a).turn_count = Carried(b).turn_count
    /\ Carried(a).players = Carried(b).players

\* C26: a clone and its original evolve alike.  The step calls made on each
\* since clone() returned the same winners (or raised the same exception),
\* call by call, as far as both have gone; and whenever as many were made on the
\* one as on the other, the two have the same turn, turn counter, deck orders,
\* hands, discard piles, prize piles, active cards and active_hp, whatever
\* state the clone's unseeded random source started in.
C26_CloneEvolvesAlike ==
    clones # <<>> =>
        /\ IsPrefix(returned.game, returned.clone) \/ IsPrefix(returned.clone, returned.game)
        /\ Len(returned.game) = Len(returned.clone) => SameBoard(game, clones[1])

\* C26 witness: a clone made after setup and a step, its random source in
\* another state than the original's; two steps and more were made on each, the
\* last of which returned a winner, and cards of several kinds were drawn
C26_Witness ==
    /\ clones # <<>>
    /\ ready
    /\ clones[1].random # game.random
    /\ Len(returned.game) >= 2
    /\ Len(returned.clone) = Len(returned.game)
    /\ game.turn_count > Len(returned.game)
    /\ Last(returned.clone) \in Turns
    /\ call.op = "clone.step"
    /\ Shuffled(game.players[PLAYER_ONE].hand)
    /\ SameBoard(game, clones[1])

====
